---- MODULE Spec2Model ----
(***************************************************************************)
(* Model of the daiv-github activity aggregation engine:                   *)
(*   - TimeRange.IsInRange                  (plugin/github/models.go)      *)
(*   - ActivityService                      (plugin/github/service.go)     *)
(*   - GitHubAPIRepository.GetPullRequests  (plugin/github repository)     *)
(* Instants are integers; 0 is the zero instant of time.Time.              *)
(***************************************************************************)
EXTENDS Integers, Sequences, FiniteSets, TLC

VARIABLES
    \* ---- TimeRange.IsInRange called on its own
    trq,          \* the call: [tr |-> TimeRange, t |-> instant, phase, result]
    \* ---- ActivityService
    config,       \* GitHubConfig.Repositories (Organization is the constant Org)
    port,         \* the GitHubRepository port: repository name -> outcome of GetPullRequests
    svc,          \* the calling goroutine: entry, pc, loop index, locals, results
    workers,      \* one goroutine per repository started by processRepositoriesConcurrently
    chan,         \* resultChan: [buf, cap, closed], wg counter and the closer goroutine
    last,         \* what processRepositoriesSequentially returned last
    \* ---- GitHubAPIRepository.GetPullRequests
    req,          \* the call: [timeRange, options]
    gpr,          \* its position: [pc, i, allPRs, fetched, remote, ret] and the search answers
    calls,        \* the remote calls issued so far, in order
    \* ---- the report formatters
    doc,          \* one Format call: [pc, report, formatter, content, err, parsed]
    \* ---- GitHubPlugin
    plugin        \* [pc, settings, tokenOk, err, config, formatter]

vars == <<trq, config, port, svc, workers, chan, last, req, gpr, calls, doc, plugin>>

fmtVars == <<doc, plugin>>

svcVars == <<config, port, svc, workers, chan, last>>
repoVars == <<req, gpr, calls>>

(***************************************************************************)
(* Bounds                                                                  *)
(***************************************************************************)
MaxRepos == 3      \* longest configured repository list
MaxRemote == 3     \* most objects the remote returns during one GetPullRequests

MaxTime == 3       \* latest instant
ZeroTime == 0      \* time.Time{}: IsZero() holds of this instant only
Times == (ZeroTime - 1)..MaxTime

AllNames == <<"repo1", "repo2", "repo3", "repo4", "repo5">>
RepoNames == {AllNames[k] : k \in 1..MaxRepos}
NameIndex(n) == CHOOSE k \in 1..Len(AllNames) : AllNames[k] = n
Org == "testorg"
Username == "testuser"
OtherUser == "someone"
Logins == {Username, OtherUser}

RECURSIVE SeqsUpTo(_, _)
SeqsUpTo(S, n) ==
    IF n = 0 THEN {<<>>}
    ELSE LET shorter == SeqsUpTo(S, n - 1)
         IN  shorter \cup {Append(s, x) : s \in {q \in shorter : Len(q) = n - 1}, x \in S}

Range(s) == {s[k] : k \in 1..Len(s)}

\* Number of positions of s satisfying the membership in set S
RECURSIVE CountIn(_, _)
CountIn(s, S) ==
    IF s = <<>> THEN 0
    ELSE (IF Head(s) \in S THEN 1 ELSE 0) + CountIn(Tail(s), S)

(***************************************************************************)
(* models.go                                                               *)
(***************************************************************************)
TimeRange(s, e) == [Start |-> s, End |-> e]

\* time.Time comparison methods
TimeEqual(t, u) == t = u
TimeAfter(t, u) == t > u
TimeBefore(t, u) == t < u
IsZero(t) == t = ZeroTime

IsInRangeStartExclusive(tr, t) == TimeAfter(t, tr.Start) /\ TimeBefore(t, tr.End)

IsInRangeEndInclusive(tr, t) ==
    (TimeEqual(t, tr.Start) \/ TimeAfter(t, tr.Start)) /\ ~TimeAfter(t, tr.End)

IsInRange(tr, t) ==
    (TimeEqual(t, tr.Start) \/ TimeAfter(t, tr.Start)) /\ TimeBefore(t, tr.End)

TimeRanges == {TimeRange(s, e) : s \in Times, e \in Times}

NoTrq == [tr |-> TimeRange(ZeroTime, ZeroTime), t |-> ZeroTime, phase |-> "off", result |-> FALSE]

InitTimeRange ==
    \E tr \in TimeRanges, t \in Times :
        trq = [tr |-> tr, t |-> t, phase |-> "call", result |-> FALSE]

CallIsInRange ==
    /\ trq.phase = "call"
    /\ trq' = [trq EXCEPT !.phase = "returned", !.result = IsInRange(trq.tr, trq.t)]
    /\ UNCHANGED <<svcVars, repoVars, fmtVars>>

(***************************************************************************)
(* Domain values                                                           *)
(***************************************************************************)
User(name, email) == [Username |-> name, Email |-> email]

\* (CreatedAt, UpdatedAt and Author are left out: nothing modelled reads them)
PullRequest(number, url, authored, reviewed) ==
    [Number |-> number, Title |-> "Test PR", URL |-> url, State |-> "open",
     IsAuthored |-> authored, IsReviewed |-> reviewed,
     Commits |-> <<>>, Reviews |-> <<>>, Comments |-> <<>>]

Repository(name, org, prs) == [Name |-> name, Organization |-> org, PullRequests |-> prs]

(***************************************************************************)
(* mock_repository.go: a deterministic port.  port[name] is what           *)
(* MockGetPullRequests returns for that repository name.                   *)
(***************************************************************************)
MockPR(name) == PullRequest(1, name, TRUE, FALSE)

\* The three answers of the mocks: an error, an empty list, a list of one pull request
PortOutcomes(name) ==
    {[err |-> TRUE, prs |-> <<>>], [err |-> FALSE, prs |-> <<>>], [err |-> FALSE, prs |-> <<MockPR(name)>>]}

\* The ports that answer for the repository names in S
Ports(S) == {p \in [S -> UNION {PortOutcomes(n) : n \in S}] : \A n \in S : p[n] \in PortOutcomes(n)}

MockUser == User(Username, "test@example.com")

GetPullRequestsPort(org, repo, timeRange) == port[repo]

(***************************************************************************)
(* models.go: DefaultQueryOptions                                          *)
(***************************************************************************)
\* The defaults with another base branch and without the comments
DefaultQueryOptionsOther ==
    [BaseBranch |-> "main", MaxResults |-> 100, IncludeAuthored |-> TRUE, IncludeReviewed |-> TRUE,
     IncludeComments |-> FALSE, IncludeCommits |-> TRUE]

DefaultQueryOptions ==
    [BaseBranch |-> "master", MaxResults |-> 100, IncludeAuthored |-> TRUE, IncludeReviewed |-> TRUE,
     IncludeComments |-> TRUE, IncludeCommits |-> TRUE]

(***************************************************************************)
(* service.go                                                              *)
(***************************************************************************)
RequestWindows == {TimeRange(1, 2)}

NilReport == [TimeRange |-> TimeRange(ZeroTime, ZeroTime), User |-> User("", ""), Repositories |-> <<>>]

NoRet == [returned |-> FALSE, isNil |-> TRUE, report |-> NilReport, err |-> FALSE]

IdleSvc ==
    [entry |-> "none", pc |-> "idle", i |-> 1, timeRange |-> TimeRange(ZeroTime, ZeroTime),
     report |-> NilReport, repositories |-> <<>>, user |-> "none", userCalls |-> 0,
     prCalls |-> [n \in RepoNames |-> 0], prArgs |-> {}, ret |-> NoRet]

NoWorker == [pc |-> "unborn", repoName |-> "", repo |-> Repository("", "", <<>>)]

NoChan == [buf |-> <<>>, cap |-> 0, closed |-> FALSE, made |-> FALSE, wg |-> 0, closer |-> "unborn",
           closes |-> 0]

NoLast == [set |-> FALSE, repos |-> <<>>]

\* The service's config: QueryOptions is DefaultQueryOptions(), Organization is Org
ServiceQueryOptions == DefaultQueryOptions

\* The arguments of s.repository.GetPullRequests(org, repoName, timeRange, s.config.QueryOptions)
GetPullRequestsCall(org, repoName, timeRange) == <<org, repoName, timeRange, ServiceQueryOptions>>

\* processRepository: the repository value and whether an error is returned
processRepositoryNoError(org, repoName, timeRange) ==
    LET out == GetPullRequestsPort(org, repoName, timeRange)
    IN  [repo |-> Repository(repoName, org, out.prs), err |-> FALSE]

processRepository(org, repoName, timeRange) ==
    LET out == GetPullRequestsPort(org, repoName, timeRange)
        repository == Repository(repoName, org, <<>>)
    IN  IF out.err
        THEN [repo |-> repository, err |-> TRUE]
        ELSE [repo |-> IF Len(out.prs) > 0
                       THEN [repository EXCEPT !.PullRequests = out.prs]
                       ELSE repository,
              err |-> FALSE]

\* The two paths start with an empty result list; the concurrent one also makes
\* the WaitGroup and the buffered channel.
StartSequential(s) == [s EXCEPT !.pc = "seq_loop", !.i = 1, !.repositories = <<>>]
StartConcurrent(s) == [s EXCEPT !.pc = "conc_spawn", !.i = 1, !.repositories = <<>>]

\* The channel has room for one result only
FreshChanOneSlot == [NoChan EXCEPT !.cap = 1, !.made = TRUE]

\* resultChan := make(chan Repository, len(s.config.Repositories))
FreshChan == [NoChan EXCEPT !.cap = Len(config), !.made = TRUE]
FreshWorkers == [k \in 1..Len(config) |-> NoWorker]

\* GetActivityReport is entered (lines 25-30)
CallGetActivityReport ==
    /\ svc.pc = "idle"
    /\ \E tr \in RequestWindows :
         svc' = [IdleSvc EXCEPT !.entry = "GetActivityReport", !.pc = "getUser", !.timeRange = tr]
    /\ workers' = FreshWorkers
    /\ chan' = NoChan
    /\ UNCHANGED <<config, port, last, trq, repoVars, fmtVars>>

\* The path chosen by GetActivityReport once the user is known (lines 45-50)
DispatchAlwaysSequential(n) == FALSE
DispatchConcurrent(n) == n > 1

\* GetUser fails: GetActivityReport returns (nil, error) (lines 33-36)
GetUserFailsReturnsReport ==
    /\ svc.pc = "getUser"
    /\ svc' = [svc EXCEPT !.pc = "done", !.userCalls = @ + 1, !.user = "failed",
                          !.ret = [returned |-> TRUE, isNil |-> FALSE, report |-> NilReport, err |-> FALSE]]
    /\ UNCHANGED <<config, port, workers, chan, last, trq, repoVars, fmtVars>>

\* A failed GetUser is ignored: the repositories are processed all the same
GetUserFailsGoesOn ==
    /\ svc.pc = "getUser"
    /\ LET s == [svc EXCEPT !.userCalls = @ + 1, !.user = "failed"]
       IN  IF DispatchConcurrent(Len(config))
           THEN svc' = StartConcurrent(s) /\ chan' = FreshChan
           ELSE svc' = StartSequential(s) /\ chan' = chan
    /\ UNCHANGED <<config, port, workers, last, trq, repoVars, fmtVars>>

GetUserFails ==
    /\ svc.pc = "getUser"
    /\ svc' = [svc EXCEPT !.pc = "done", !.userCalls = @ + 1, !.user = "failed",
                          !.ret = [returned |-> TRUE, isNil |-> TRUE, report |-> NilReport, err |-> TRUE]]
    /\ UNCHANGED <<config, port, workers, chan, last, trq, repoVars, fmtVars>>

\* The report is created with a zero TimeRange
NewReportZeroWindow(timeRange, user) ==
    [TimeRange |-> TimeRange(ZeroTime, ZeroTime), User |-> user, Repositories |-> <<>>]

\* report := &ActivityReport{TimeRange: timeRange, User: *user, Repositories: ...}
NewReport(timeRange, user) == [TimeRange |-> timeRange, User |-> user, Repositories |-> <<>>]

\* GetUser succeeds: the report is created and a path is chosen (lines 33-50)
GetUserSucceeds ==
    /\ svc.pc = "getUser"
    /\ LET report == NewReport(svc.timeRange, MockUser)
           s == [svc EXCEPT !.userCalls = @ + 1, !.user = "ok", !.report = report]
       IN  IF DispatchConcurrent(Len(config))
           THEN svc' = StartConcurrent(s) /\ chan' = FreshChan
           ELSE svc' = StartSequential(s) /\ chan' = chan
    /\ UNCHANGED <<config, port, workers, last, trq, repoVars, fmtVars>>

\* processRepositoriesSequentially and then processRepositoriesConcurrently are
\* called directly, one after the other, on the same service
CallSequential ==
    /\ svc.pc = "idle"
    /\ \E tr \in RequestWindows :
         svc' = StartSequential([IdleSvc EXCEPT !.entry = "processRepositoriesSequentially",
                                                !.timeRange = tr])
    /\ workers' = FreshWorkers
    /\ chan' = NoChan
    /\ UNCHANGED <<config, port, last, trq, repoVars, fmtVars>>

CallConcurrent ==
    /\ svc.pc = "done"
    /\ svc.entry = "processRepositoriesSequentially"
    /\ \E tr \in RequestWindows :
         svc' = StartConcurrent([IdleSvc EXCEPT !.entry = "processRepositoriesConcurrently",
                                                !.timeRange = tr])
    /\ workers' = FreshWorkers
    /\ chan' = FreshChan
    /\ UNCHANGED <<config, port, last, trq, repoVars, fmtVars>>

\* A path returns its list to whoever called it
ReturnRepositories(s, repositories) ==
    IF s.entry = "GetActivityReport"
    THEN LET report == [s.report EXCEPT !.Repositories = repositories]
         IN  [s EXCEPT !.pc = "done", !.report = report,
                       !.ret = [returned |-> TRUE, isNil |-> FALSE, report |-> report, err |-> FALSE]]
    ELSE [s EXCEPT !.pc = "done"]


\* The repository is put in front of the list
prependRepository(repositories, repo) == <<repo>> \o repositories

\* repositories = append(repositories, repo)
appendRepository(repositories, repo) == Append(repositories, repo)

\* The loop ends at the first failure
nextIterationStopsOnError(i, err) == IF err THEN Len(config) + 1 ELSE i + 1

\* Both the continue after a failure and the end of the body go to the next entry
nextIteration(i, err) == i + 1

\* One iteration of the loop of processRepositoriesSequentially (lines 93-101)
SequentialStep ==
    /\ svc.pc = "seq_loop"
    /\ svc.i <= Len(config)
    /\ LET repoName == config[svc.i]
           r == processRepository(Org, repoName, svc.timeRange)
       IN  svc' = [svc EXCEPT !.i = nextIteration(@, r.err),
                              !.prCalls[repoName] = @ + 1,
                              !.prArgs = @ \cup {GetPullRequestsCall(Org, repoName, svc.timeRange)},
                              !.repositories = IF r.err THEN @ ELSE appendRepository(@, r.repo)]
    /\ UNCHANGED <<config, port, workers, chan, last, trq, repoVars, fmtVars>>

SequentialReturn ==
    /\ svc.pc = "seq_loop"
    /\ svc.i > Len(config)
    /\ svc' = ReturnRepositories(svc, svc.repositories)
    /\ last' = [set |-> TRUE, repos |-> svc.repositories]
    /\ UNCHANGED <<config, port, workers, chan, trq, repoVars, fmtVars>>

\* One iteration of the spawning loop (lines 60-72): wg.Add(1); go func(repoName)
SpawnWorker ==
    /\ svc.pc = "conc_spawn"
    /\ svc.i <= Len(config)
    /\ workers' = [workers EXCEPT ![svc.i] = [@ EXCEPT !.pc = "run", !.repoName = config[svc.i]]]
    /\ chan' = [chan EXCEPT !.wg = @ + 1]
    /\ svc' = [svc EXCEPT !.i = @ + 1]
    /\ UNCHANGED <<config, port, last, trq, repoVars, fmtVars>>

\* go func() { wg.Wait(); close(resultChan) }() (lines 75-78)
SpawnCloser ==
    /\ svc.pc = "conc_spawn"
    /\ svc.i > Len(config)
    /\ chan' = [chan EXCEPT !.closer = "wait"]
    /\ svc' = [svc EXCEPT !.pc = "collect"]
    /\ UNCHANGED <<config, port, workers, last, trq, repoVars, fmtVars>>

\* Worker body (lines 63-70)
WorkerProcess(k) ==
    /\ workers[k].pc = "run"
    /\ LET r == processRepository(Org, workers[k].repoName, svc.timeRange)
       IN  workers' = [workers EXCEPT ![k] = [@ EXCEPT !.pc = IF r.err THEN "exit" ELSE "send",
                                                        !.repo = r.repo]]
    /\ svc' = [svc EXCEPT !.prCalls[workers[k].repoName] = @ + 1,
                          !.prArgs = @ \cup {GetPullRequestsCall(Org, workers[k].repoName,
                                                                 svc.timeRange)}]
    /\ UNCHANGED <<config, port, chan, last, trq, repoVars, fmtVars>>

\* resultChan <- repo : blocks while the buffer is full, panics on a closed channel
SendKeepsOne(c, k) == [c EXCEPT !.buf = IF Len(@) = 0 THEN <<workers[k].repo>> ELSE @]
Send(c, k) == [c EXCEPT !.buf = Append(@, workers[k].repo)]

WorkerSend(k) ==
    /\ workers[k].pc = "send"
    /\ \/ /\ chan.closed
          /\ workers' = [workers EXCEPT ![k] = [@ EXCEPT !.pc = "panic"]]
          /\ chan' = chan
       \/ /\ ~chan.closed
          /\ Len(chan.buf) < chan.cap
          /\ chan' = Send(chan, k)
          /\ workers' = [workers EXCEPT ![k] = [@ EXCEPT !.pc = "exit"]]
    /\ UNCHANGED <<config, port, svc, last, trq, repoVars, fmtVars>>

\* The worker leaves without telling the WaitGroup
wgDoneForgotten(c) == c

\* wg.Done()
wgDone(c) == [c EXCEPT !.wg = @ - 1]

\* defer wg.Done()
WorkerDone(k) ==
    /\ workers[k].pc = "exit"
    /\ workers' = [workers EXCEPT ![k] = [@ EXCEPT !.pc = "done"]]
    /\ chan' = wgDone(chan)
    /\ UNCHANGED <<config, port, svc, last, trq, repoVars, fmtVars>>

\* wg.Wait() returns once the counter is zero
CloserWait ==
    /\ chan.closer = "wait"
    /\ chan.wg = 0
    /\ chan' = [chan EXCEPT !.closer = "close"]
    /\ UNCHANGED <<config, port, svc, workers, last, trq, repoVars, fmtVars>>

CloserClose ==
    /\ chan.closer = "close"
    /\ chan' = [chan EXCEPT !.closer = "done", !.closed = TRUE, !.closes = @ + 1]
    /\ UNCHANGED <<config, port, svc, workers, last, trq, repoVars, fmtVars>>

\* for repo := range resultChan { repositories = append(repositories, repo) }
Collect ==
    /\ svc.pc = "collect"
    /\ Len(chan.buf) > 0
    /\ svc' = [svc EXCEPT !.repositories = Append(@, Head(chan.buf))]
    /\ chan' = [chan EXCEPT !.buf = Tail(@)]
    /\ UNCHANGED <<config, port, workers, last, trq, repoVars, fmtVars>>

ConcurrentReturn ==
    /\ svc.pc = "collect"
    /\ Len(chan.buf) = 0
    /\ chan.closed
    /\ svc' = ReturnRepositories(svc, svc.repositories)
    /\ UNCHANGED <<config, port, workers, chan, last, trq, repoVars, fmtVars>>

\* Configured repository lists, up to a renaming of the repositories: a name
\* is either one used earlier in the list (a duplicate entry) or the next unused one.
FirstUse(c) ==
    \A k \in 1..Len(c) :
        NameIndex(c[k]) <= 1 + Cardinality({NameIndex(c[j]) : j \in 1..(k - 1)})

Configs == {c \in SeqsUpTo(RepoNames, MaxRepos) : FirstUse(c)}

NoReq == [timeRange |-> TimeRange(ZeroTime, ZeroTime),
          options |-> [IncludeAuthored |-> TRUE, IncludeReviewed |-> TRUE,
                       IncludeComments |-> TRUE, IncludeCommits |-> TRUE]]
NoGprRet == [returned |-> FALSE, isNil |-> TRUE, prs |-> <<>>, err |-> FALSE]
NoGpr == [pc |-> "off", i |-> 1, allPRs |-> <<>>, fetched |-> <<>>, remote |-> 0, ret |-> NoGprRet,
          authored |-> <<>>, reviewed |-> <<>>]

\* FormattedContent; Content is the text as the sequence of the pieces written
FormattedContent(contentType, content) == [ContentType |-> contentType, Content |-> content]

NoContent == FormattedContent("", <<>>)

NoDoc == [pc |-> "off", report |-> NilReport, formatter |-> "none", content |-> NoContent,
          err |-> FALSE, parsed |-> NilReport]

\* A value of the settings map: settings[key].(string) gives (value, isString)
Str(s) == [isString |-> TRUE, value |-> s]
NotAString == [isString |-> FALSE, value |-> ""]

SettingKeys ==
    {"github.repositories", "github.username", "github.organization", "github.format",
     "github.query.base_branch", "github.query.include_authored", "github.query.include_reviewed"}

NoQueryOptions ==
    [BaseBranch |-> "", MaxResults |-> 0, IncludeAuthored |-> FALSE, IncludeReviewed |-> FALSE,
     IncludeComments |-> FALSE, IncludeCommits |-> FALSE]

NoGitHubConfig ==
    [Username |-> "", Organization |-> "", Repositories |-> <<>>, QueryOptions |-> NoQueryOptions]

\* A GetStandupContext call: the report it got, the result of Format, and the error returned
NoContext == [pc |-> "none", report |-> NilReport, formatted |-> NoContent, err |-> ""]

NoPlugin == [pc |-> "off", settings |-> [k \in SettingKeys |-> NotAString], tokenOk |-> FALSE,
             err |-> "", config |-> NoGitHubConfig, formatter |-> "none", context |-> NoContext]

Init ==
    /\ config \in Configs
    /\ port \in Ports(Range(config))
    /\ svc = IdleSvc
    /\ workers = FreshWorkers
    /\ chan = NoChan
    /\ last = NoLast
    /\ trq = NoTrq
    /\ req = NoReq
    /\ gpr = NoGpr
    /\ calls = <<>>
    /\ doc = NoDoc
    /\ plugin = NoPlugin

Next ==
    \/ CallGetActivityReport
    \/ GetUserFails
    \/ GetUserSucceeds
    \/ CallSequential
    \/ CallConcurrent
    \/ SequentialStep
    \/ SequentialReturn
    \/ SpawnWorker
    \/ SpawnCloser
    \/ \E k \in DOMAIN workers : WorkerProcess(k)
    \/ \E k \in DOMAIN workers : WorkerSend(k)
    \/ \E k \in DOMAIN workers : WorkerDone(k)
    \/ CloserWait
    \/ CloserClose
    \/ Collect
    \/ ConcurrentReturn

Spec == Init /\ [][Next]_vars

\* The goroutines of processRepositoriesConcurrently: the caller's (spawning,
\* then collecting and returning), worker k (whose GetPullRequests call
\* returns) and the closer.
CallerGoroutine == SpawnWorker \/ SpawnCloser \/ Collect \/ ConcurrentReturn
WorkerGoroutine(k) ==
    /\ k \in DOMAIN workers
    /\ (WorkerProcess(k) \/ WorkerSend(k) \/ WorkerDone(k))
CloserGoroutine == CloserWait \/ CloserClose

\* The Go scheduler runs every goroutine that can take a step
Scheduling ==
    /\ WF_vars(CallerGoroutine)
    /\ \A k \in 1..MaxRepos : WF_vars(WorkerGoroutine(k))
    /\ WF_vars(CloserGoroutine)

\* Every number of repositories, each failing or succeeding on its own (a name
\* listed twice gives two workers with the same outcome, and the two successes
\* of the mock differ in the list that is sent, not in the steps taken)
InitLive ==
    /\ Init
    /\ Cardinality(Range(config)) = Len(config)
    /\ \A n \in Range(config) : port[n].err \/ Len(port[n].prs) >= 1

SpecLive == InitLive /\ [][Next]_vars /\ Scheduling

(***************************************************************************)
(* GitHubAPIRepository (the remote-backed port).  The remote answers each   *)
(* call with an error or a list; all the lists of one GetPullRequests call  *)
(* hold at most MaxRemote objects together.  IDs and SHAs are the position  *)
(* of the object in the list the remote returned.                           *)
(***************************************************************************)
PRNumbers == {1, 2}
RepoTimes == (ZeroTime - 1)..(ZeroTime + 2)
RepoWindows == {TimeRange(s, e) : s \in RepoTimes, e \in {ZeroTime + 1, ZeroTime + 2}}
QueryOptionsSet ==
    [IncludeAuthored : BOOLEAN, IncludeReviewed : BOOLEAN,
     IncludeComments : BOOLEAN, IncludeCommits : BOOLEAN]

NoRepeat(q) == \A a, b \in 1..Len(q) : a # b => q[a] # q[b]

\* Search.Issues answers: issue numbers, no issue twice in one answer
Issues(n) == {q \in SeqsUpTo(PRNumbers, n) : NoRepeat(q)}

\* PullRequests.ListCommits / ListComments / ListReviews answers
Stamped(n) ==
    {[k \in 1..Len(q) |-> [ID |-> k, Login |-> q[k][1], At |-> q[k][2]]] :
        q \in SeqsUpTo(Logins \X RepoTimes, n)}

RemoteLeft == MaxRemote - gpr.remote

\* git author name of a commit, as the remote reports it for a login
GitName(login) == IF login = Username THEN "Test User" ELSE "Some One"

\* searchAuthoredPullRequests / searchReviewedPullRequests: issues to pull requests
searchAuthoredPullRequests(repo, issues) ==
    [k \in 1..Len(issues) |-> PullRequest(issues[k], repo, TRUE, FALSE)]

\* The reviewed search marks its pull requests as authored too
searchReviewedMarksAuthored(repo, issues) ==
    [k \in 1..Len(issues) |-> PullRequest(issues[k], repo, TRUE, TRUE)]

searchReviewedPullRequests(repo, issues) ==
    [k \in 1..Len(issues) |-> PullRequest(issues[k], repo, FALSE, TRUE)]

Commit(c) ==
    [SHA |-> c.ID, Message |-> "a commit", Author |-> GitName(c.Login), Timestamp |-> c.At]
Comment(c) == [ID |-> c.ID, Author |-> c.Login, Body |-> "a comment", Timestamp |-> c.At]
Review(r) ==
    [ID |-> r.ID, Author |-> r.Login, State |-> "APPROVED", Body |-> "a review", Timestamp |-> r.At]

\* getCommits: the loop over prCommits (lines 498-513)
getCommits(prCommits, timeRange) ==
    LET Keep(c) == IsInRange(timeRange, c.At)
        kept == SelectSeq(prCommits, Keep)
    IN  [k \in 1..Len(kept) |-> Commit(kept[k])]

\* getComments: the loop over prComments (lines 525-542)
\* The comments of every author are kept
getCommentsAnyAuthor(prComments, timeRange, username) ==
    LET Keep(c) == IsInRange(timeRange, c.At)
        kept == SelectSeq(prComments, Keep)
    IN  [k \in 1..Len(kept) |-> Comment(kept[k])]

getComments(prComments, timeRange, username) ==
    LET Keep(c) == IsInRange(timeRange, c.At) /\ c.Login = username
        kept == SelectSeq(prComments, Keep)
    IN  [k \in 1..Len(kept) |-> Comment(kept[k])]

\* getReviews: the loop over prReviews (lines 554-570)
getReviews(prReviews, timeRange, username) ==
    LET Keep(r) == IsInRange(timeRange, r.At) /\ r.Login = username
        kept == SelectSeq(prReviews, Keep)
    IN  [k \in 1..Len(kept) |-> Review(kept[k])]

NoFetched == [commits |-> <<>>, comments |-> <<>>, reviews |-> <<>>]

TheRepo == AllNames[1]

\* One remote call: which, for which pull request (0: a search), and whether it succeeded
RemoteCall(what, number, ok) == [call |-> what, number |-> number, ok |-> ok]

\* return allPRs, nil
GprReturn(g) == [g EXCEPT !.pc = "done",
                          !.ret = [returned |-> TRUE, isNil |-> g.allPRs = <<>>, prs |-> g.allPRs,
                                   err |-> FALSE]]

\* The enrichment loop `for i := range allPRs` is entered or left
EnterLoop(g) == IF Len(g.allPRs) = 0 THEN GprReturn(g) ELSE [g EXCEPT !.pc = "commits", !.i = 1]
NextPR(g) == IF g.i = Len(g.allPRs) THEN GprReturn(g) ELSE [g EXCEPT !.pc = "commits", !.i = @ + 1]

\* return allPRs, err: the list built so far goes out with the error
GprFailReturnsPartial(g) ==
    [g EXCEPT !.pc = "done",
              !.ret = [returned |-> TRUE, isNil |-> FALSE, prs |-> g.allPRs, err |-> TRUE]]

\* The error of a remote call is dropped and GetPullRequests carries on
GprFailGoesOn(g) ==
    CASE g.pc = "authored" -> [g EXCEPT !.pc = "reviewed"]
      [] g.pc = "reviewed" -> EnterLoop(g)
      [] g.pc = "commits" -> [g EXCEPT !.pc = "comments"]
      [] g.pc = "comments" -> [g EXCEPT !.pc = "reviews"]
      [] g.pc = "reviews" -> NextPR(g)

\* return nil, err
GprFail(g) == [g EXCEPT !.pc = "done",
                        !.ret = [returned |-> TRUE, isNil |-> TRUE, prs |-> <<>>, err |-> TRUE]]

\* lines 359-365
SearchAuthored ==
    /\ gpr.pc = "authored"
    /\ IF ~req.options.IncludeAuthored
       THEN gpr' = [gpr EXCEPT !.pc = "reviewed"] /\ calls' = calls
       ELSE \/ /\ calls' = Append(calls, RemoteCall("searchAuthored", 0, FALSE))
               /\ gpr' = GprFail(gpr)
            \/ /\ calls' = Append(calls, RemoteCall("searchAuthored", 0, TRUE))
               /\ \E issues \in Issues(RemoteLeft) :
                    gpr' = [gpr EXCEPT !.pc = "reviewed",
                                       !.remote = @ + Len(issues),
                                       !.authored = issues,
                                       !.allPRs = @ \o searchAuthoredPullRequests(TheRepo, issues),
                                       !.fetched = @ \o [k \in 1..Len(issues) |-> NoFetched]]
    /\ UNCHANGED <<req, trq, svcVars, fmtVars>>

\* lines 368-374, and the entry into the enrichment loop
SearchReviewed ==
    /\ gpr.pc = "reviewed"
    /\ IF ~req.options.IncludeReviewed
       THEN gpr' = EnterLoop(gpr) /\ calls' = calls
       ELSE \/ /\ calls' = Append(calls, RemoteCall("searchReviewed", 0, FALSE))
               /\ gpr' = GprFail(gpr)
            \/ /\ calls' = Append(calls, RemoteCall("searchReviewed", 0, TRUE))
               /\ \E issues \in Issues(RemoteLeft) :
                    gpr' = EnterLoop([gpr EXCEPT !.remote = @ + Len(issues),
                                                 !.reviewed = issues,
                                                 !.allPRs = @ \o searchReviewedPullRequests(TheRepo, issues),
                                                 !.fetched = @ \o [k \in 1..Len(issues) |-> NoFetched]])
    /\ UNCHANGED <<req, trq, svcVars, fmtVars>>

\* The commits of every pull request are fetched, whatever the options say
FetchCommitsAlways(options) == TRUE

\* if options.IncludeCommits
FetchCommits(options) == options.IncludeCommits

\* lines 378-384
EnrichCommits ==
    /\ gpr.pc = "commits"
    /\ IF ~FetchCommits(req.options)
       THEN gpr' = [gpr EXCEPT !.pc = "comments"] /\ calls' = calls
       ELSE \/ /\ calls' = Append(calls, RemoteCall("ListCommits", gpr.allPRs[gpr.i].Number, FALSE))
               /\ gpr' = GprFail(gpr)
            \/ /\ calls' = Append(calls, RemoteCall("ListCommits", gpr.allPRs[gpr.i].Number, TRUE))
               /\ \E prCommits \in Stamped(RemoteLeft) :
                    gpr' = [gpr EXCEPT !.pc = "comments",
                                       !.remote = @ + Len(prCommits),
                                       !.fetched[gpr.i].commits = prCommits,
                                       !.allPRs[gpr.i].Commits = getCommits(prCommits, req.timeRange)]
    /\ UNCHANGED <<req, trq, svcVars, fmtVars>>

\* lines 386-392
EnrichComments ==
    /\ gpr.pc = "comments"
    /\ IF ~req.options.IncludeComments
       THEN gpr' = [gpr EXCEPT !.pc = "reviews"] /\ calls' = calls
       ELSE \/ /\ calls' = Append(calls, RemoteCall("ListComments", gpr.allPRs[gpr.i].Number, FALSE))
               /\ gpr' = GprFail(gpr)
            \/ /\ calls' = Append(calls, RemoteCall("ListComments", gpr.allPRs[gpr.i].Number, TRUE))
               /\ \E prComments \in Stamped(RemoteLeft) :
                    gpr' = [gpr EXCEPT !.pc = "reviews",
                                       !.remote = @ + Len(prComments),
                                       !.fetched[gpr.i].comments = prComments,
                                       !.allPRs[gpr.i].Comments =
                                            getComments(prComments, req.timeRange, Username)]
    /\ UNCHANGED <<req, trq, svcVars, fmtVars>>

\* lines 394-401, and the end of the loop body
EnrichReviews ==
    /\ gpr.pc = "reviews"
    /\ IF ~gpr.allPRs[gpr.i].IsReviewed
       THEN gpr' = NextPR(gpr) /\ calls' = calls
       ELSE \/ /\ calls' = Append(calls, RemoteCall("ListReviews", gpr.allPRs[gpr.i].Number, FALSE))
               /\ gpr' = GprFail(gpr)
            \/ /\ calls' = Append(calls, RemoteCall("ListReviews", gpr.allPRs[gpr.i].Number, TRUE))
               /\ \E prReviews \in Stamped(RemoteLeft) :
                    gpr' = NextPR([gpr EXCEPT !.remote = @ + Len(prReviews),
                                              !.fetched[gpr.i].reviews = prReviews,
                                              !.allPRs[gpr.i].Reviews =
                                                   getReviews(prReviews, req.timeRange, Username)])
    /\ UNCHANGED <<req, trq, svcVars, fmtVars>>

InitRepo ==
    /\ req \in [timeRange : RepoWindows, options : QueryOptionsSet]
    /\ gpr = [NoGpr EXCEPT !.pc = "authored"]
    /\ calls = <<>>
    /\ doc = NoDoc
    /\ plugin = NoPlugin
    /\ trq = NoTrq
    /\ config = <<>>
    /\ port \in Ports({})
    /\ svc = IdleSvc
    /\ workers = <<>>
    /\ chan = NoChan
    /\ last = NoLast

NextRepo ==
    \/ SearchAuthored
    \/ SearchReviewed
    \/ EnrichCommits
    \/ EnrichComments
    \/ EnrichReviews

SpecRepo == InitRepo /\ [][NextRepo]_vars

(***************************************************************************)
(* TimeRange.IsInRange on its own                                         *)
(***************************************************************************)
InitTime ==
    /\ InitTimeRange
    /\ config = <<>>
    /\ port \in Ports({})
    /\ svc = IdleSvc
    /\ workers = <<>>
    /\ chan = NoChan
    /\ last = NoLast
    /\ req = NoReq
    /\ gpr = NoGpr
    /\ calls = <<>>
    /\ doc = NoDoc
    /\ plugin = NoPlugin

NextTime == CallIsInRange

SpecTime == InitTime /\ [][NextTime]_vars

(***************************************************************************)
(* Properties of TimeRange.IsInRange                                       *)
(***************************************************************************)
IsInRangeReturned == trq.phase = "returned"

\* C5: IsInRange(t) is true if and only if t >= Start and t < End.
C5_StartInclusiveEndExclusive ==
    IsInRangeReturned => (trq.result <=> (trq.t >= trq.tr.Start /\ trq.t < trq.tr.End))

C5_Witness ==
    /\ IsInRangeReturned
    /\ trq.tr.Start < trq.tr.End
    /\ trq.t = trq.tr.Start
    /\ trq.result

\* C6 as stated: for every window, IsInRange(Start) is true and IsInRange(End) is false.
C6_BoundaryLawAllWindows ==
    IsInRangeReturned =>
        /\ (trq.t = trq.tr.Start => trq.result)
        /\ (trq.t = trq.tr.End => ~trq.result)

\* C6 amended: for every window IsInRange(End) is false, and IsInRange(Start) is
\* true exactly when Start < End.
C6_BoundaryLaw ==
    IsInRangeReturned =>
        /\ (trq.t = trq.tr.End => ~trq.result)
        /\ (trq.t = trq.tr.Start => (trq.result <=> trq.tr.Start < trq.tr.End))

C6_Witness ==
    /\ IsInRangeReturned
    /\ trq.tr.Start > trq.tr.End
    /\ trq.t = trq.tr.Start
    /\ ~trq.result

(***************************************************************************)
(* Properties of ActivityService                                           *)
(***************************************************************************)
ReportReturned == svc.entry = "GetActivityReport" /\ svc.pc = "done"

\* The list a finished call handed back
ReturnedRepositories ==
    IF svc.entry = "GetActivityReport" THEN svc.ret.report.Repositories ELSE svc.repositories

NamesOf(repos) == [k \in 1..Len(repos) |-> repos[k].Name]

Failing == {n \in Range(config) : port[n].err}
Succeeding == {n \in Range(config) : ~port[n].err}

\* C1: when some repositories fail and the others succeed with at least one
\* pull request, the call returns no error and the list holds the succeeding
\* repositories, once per configured entry, and no failing one (both paths).
C1_PartialFailure ==
    /\ (ReportReturned /\ svc.user = "ok") => ~svc.ret.err /\ ~svc.ret.isNil
    /\ ( /\ svc.pc = "done"
         /\ svc.user # "failed"
         /\ \A n \in Succeeding : Len(port[n].prs) >= 1 )
       => \A n \in RepoNames :
            CountIn(NamesOf(ReturnedRepositories), {n}) =
                IF n \in Succeeding THEN CountIn(config, {n}) ELSE 0

C1_Witness ==
    /\ ReportReturned
    /\ Len(config) = 3
    /\ Cardinality(Failing) = 1
    /\ Cardinality(Succeeding) = 2
    /\ \A n \in Succeeding : Len(port[n].prs) >= 1
    /\ ~svc.ret.err
    /\ Len(svc.ret.report.Repositories) = 2

\* C2: GetActivityReport returns an error (and a nil report) if and only if
\* GetUser fails, whatever the per-repository outcomes.
C2_ErrorIffGetUserFails ==
    ReportReturned =>
        /\ svc.ret.err <=> svc.user = "failed"
        /\ svc.ret.isNil <=> svc.ret.err

C2_Witness ==
    /\ ReportReturned
    /\ Len(config) >= 2
    /\ Succeeding = {}
    /\ svc.user = "ok"
    /\ ~svc.ret.err
    /\ ~svc.ret.isNil

\* C3: every repository of a returned report has at least one pull request.
C3_NoEmptyRepository ==
    (ReportReturned /\ ~svc.ret.err) =>
        \A k \in 1..Len(svc.ret.report.Repositories) :
            Len(svc.ret.report.Repositories[k].PullRequests) >= 1

\* C4: for the same configuration and port, the concurrent path returns the
\* same repositories (names, multiplicity, pull requests) as the sequential
\* path, under every interleaving; only the order may differ.
SameMembership(a, b) ==
    \A r \in Range(a) \cup Range(b) : CountIn(a, {r}) = CountIn(b, {r})

C4_PathsAgree ==
    (svc.entry = "processRepositoriesConcurrently" /\ svc.pc = "done" /\ last.set)
        => SameMembership(svc.repositories, last.repos)

C4_Witness ==
    /\ svc.entry = "processRepositoriesConcurrently"
    /\ svc.pc = "done"
    /\ last.set
    /\ Len(config) = 3
    /\ Len(last.repos) >= 2
    /\ svc.repositories # last.repos

(***************************************************************************)
(* Properties of GitHubAPIRepository.GetPullRequests                       *)
(***************************************************************************)
PullRequestsReturned == gpr.ret.returned /\ ~gpr.ret.err

Returned == 1..Len(gpr.ret.prs)

Sorted(q) == \A a, b \in 1..Len(q) : a < b => q[a].Timestamp <= q[b].Timestamp

\* C7: every attached commit was made by the target user (commit-author login)
\* inside the window; a commit by anyone else is never attached.
C7_CommitsByUserInWindow ==
    PullRequestsReturned =>
        \A i \in Returned :
            \A c \in Range(gpr.ret.prs[i].Commits) :
                \E raw \in Range(gpr.fetched[i].commits) :
                    /\ raw.ID = c.SHA
                    /\ raw.Login = Username
                    /\ IsInRange(req.timeRange, c.Timestamp)

\* C8: a review without submission timestamp is never attached, whatever the
\* window; the attached reviews are exactly those by the target user with a
\* non-zero submission timestamp inside the window.
C8_NoUnsubmittedReview ==
    PullRequestsReturned =>
        \A i \in Returned :
            gpr.ret.prs[i].IsReviewed =>
                \A raw \in Range(gpr.fetched[i].reviews) :
                    (\E r \in Range(gpr.ret.prs[i].Reviews) : r.ID = raw.ID)
                        <=> /\ raw.Login = Username
                            /\ ~IsZero(raw.At)
                            /\ IsInRange(req.timeRange, raw.At)

\* C9: the Commits list and the Reviews list of every returned pull request
\* are sorted by timestamp ascending.
C9_CommitsAndReviewsSorted ==
    PullRequestsReturned =>
        \A i \in Returned : Sorted(gpr.ret.prs[i].Commits) /\ Sorted(gpr.ret.prs[i].Reviews)

\* The fetched objects by the target user stamped t are all attached / all left out
Attached(raws, list, t) ==
    \A raw \in Range(raws) :
        (raw.Login = Username /\ raw.At = t) => \E x \in Range(list) : x.Timestamp = t
LeftOut(raws, list, t) ==
    \A raw \in Range(raws) :
        (raw.Login = Username /\ raw.At = t) => \A x \in Range(list) : x.Timestamp # t

BoundariesRespected ==
    \A i \in Returned :
        LET pr == gpr.ret.prs[i]
            got == gpr.fetched[i]
            tr == req.timeRange
        IN  /\ req.options.IncludeCommits =>
                Attached(got.commits, pr.Commits, tr.Start) /\ LeftOut(got.commits, pr.Commits, tr.End)
            /\ req.options.IncludeComments =>
                Attached(got.comments, pr.Comments, tr.Start) /\ LeftOut(got.comments, pr.Comments, tr.End)
            /\ pr.IsReviewed =>
                Attached(got.reviews, pr.Reviews, tr.Start) /\ LeftOut(got.reviews, pr.Reviews, tr.End)

\* C10 as stated: a fetched commit, comment or review by the target user stamped
\* window.End is excluded and one stamped window.Start is included.
C10_BoundariesAnyWindow == PullRequestsReturned => BoundariesRespected

\* C10 amended: the same, for the windows with Start < End.
C10_Boundaries ==
    (PullRequestsReturned /\ req.timeRange.Start < req.timeRange.End) => BoundariesRespected

C10_Witness ==
    /\ PullRequestsReturned
    /\ req.timeRange.Start < req.timeRange.End
    /\ \E i \in Returned :
         /\ \E a, b \in Range(gpr.fetched[i].comments) :
              /\ a.Login = Username /\ a.At = req.timeRange.Start
              /\ b.Login = Username /\ b.At = req.timeRange.End
         /\ Len(gpr.ret.prs[i].Comments) = 1
         /\ gpr.ret.prs[i].Comments[1].Timestamp = req.timeRange.Start

SomeCallFailed == \E k \in 1..Len(calls) : ~calls[k].ok

Called(what) == \E k \in 1..Len(calls) : calls[k].call = what

CountCalls(what) == Cardinality({k \in 1..Len(calls) : calls[k].call = what})

\* C11: a failure of any single remote call (either search, or the commit,
\* comment or review listing of any pull request) makes GetPullRequests return
\* at once with an error and no list; without a failure it returns no error.
C11_AllOrNothing ==
    /\ SomeCallFailed => gpr.ret.returned /\ gpr.ret.err
    /\ gpr.ret.returned =>
          /\ gpr.ret.err <=> SomeCallFailed
          /\ gpr.ret.err => gpr.ret.isNil /\ gpr.ret.prs = <<>>

\* The listing of the second pull request fails after the first was enriched
C11_Witness ==
    /\ gpr.ret.returned /\ gpr.ret.err /\ gpr.ret.isNil
    /\ Len(gpr.allPRs) >= 2 /\ gpr.i = 2
    /\ Len(gpr.allPRs[1].Commits) >= 1
    /\ calls[Len(calls)].number = gpr.allPRs[2].Number

\* C12: every returned pull request has at least one commit, comment or review
\* attached (all the activity fetching switched on).
C12_EveryPullRequestHasActivity ==
    (PullRequestsReturned /\ req.options.IncludeCommits /\ req.options.IncludeComments) =>
        \A i \in Returned :
            Len(gpr.ret.prs[i].Commits) + Len(gpr.ret.prs[i].Comments)
                + Len(gpr.ret.prs[i].Reviews) >= 1

Numbers(prs) == [k \in 1..Len(prs) |-> prs[k].Number]

\* C19: the returned list is the authored answer in the remote's order (each
\* IsAuthored and not IsReviewed) followed by the reviewed answer in the
\* remote's order (each IsReviewed and not IsAuthored); nothing is merged, so a
\* pull request in both answers appears twice.
C19_AuthoredThenReviewed ==
    PullRequestsReturned =>
        /\ Numbers(gpr.ret.prs) = gpr.authored \o gpr.reviewed
        /\ \A i \in Returned :
              IF i <= Len(gpr.authored)
              THEN gpr.ret.prs[i].IsAuthored /\ ~gpr.ret.prs[i].IsReviewed
              ELSE gpr.ret.prs[i].IsReviewed /\ ~gpr.ret.prs[i].IsAuthored

\* Two authored pull requests in an order that is not the numeric one, the
\* first of them in the reviewed answer as well
C19_Witness ==
    /\ PullRequestsReturned
    /\ Len(gpr.authored) = 2 /\ gpr.authored[1] > gpr.authored[2]
    /\ gpr.reviewed = <<gpr.authored[1]>>
    /\ Len(gpr.ret.prs) = 3
    /\ gpr.ret.prs[1].Number = gpr.ret.prs[3].Number

ReviewedUpTo(n) == Cardinality({k \in 1..Len(gpr.allPRs) : k <= n /\ gpr.allPRs[k].IsReviewed})

\* C20: a search switched off is not run and contributes no pull request; with
\* IncludeCommits (IncludeComments) off no commit (comment) listing is called
\* and every Commits (Comments) list is empty; reviews are listed once per
\* pull request with IsReviewed, so an authored-only one has no Reviews; with
\* both searches off, or nothing matched, the result is the empty list, no error.
C20_TogglesGate ==
    /\ ~req.options.IncludeAuthored =>
          ~Called("searchAuthored") /\ \A k \in 1..Len(gpr.allPRs) : ~gpr.allPRs[k].IsAuthored
    /\ ~req.options.IncludeReviewed =>
          ~Called("searchReviewed") /\ \A k \in 1..Len(gpr.allPRs) : ~gpr.allPRs[k].IsReviewed
    /\ ~req.options.IncludeCommits =>
          ~Called("ListCommits") /\ \A k \in 1..Len(gpr.allPRs) : gpr.allPRs[k].Commits = <<>>
    /\ ~req.options.IncludeComments =>
          ~Called("ListComments") /\ \A k \in 1..Len(gpr.allPRs) : gpr.allPRs[k].Comments = <<>>
    /\ CountCalls("ListReviews") <= ReviewedUpTo(gpr.i)
    /\ \A k \in 1..Len(gpr.allPRs) : ~gpr.allPRs[k].IsReviewed => gpr.allPRs[k].Reviews = <<>>
    /\ PullRequestsReturned =>
          /\ gpr.ret.prs = gpr.allPRs
          /\ CountCalls("ListReviews") = Len(gpr.reviewed)
          /\ (gpr.authored = <<>> /\ gpr.reviewed = <<>>) => gpr.ret.prs = <<>>
    /\ (~req.options.IncludeAuthored /\ ~req.options.IncludeReviewed /\ gpr.pc = "done") =>
          PullRequestsReturned /\ gpr.ret.prs = <<>> /\ calls = <<>>

\* Only the authored search and the comments are on: a pull request comes back
\* with a comment, without commits and without reviews
C20_Witness ==
    /\ PullRequestsReturned
    /\ req.options.IncludeAuthored /\ ~req.options.IncludeReviewed
    /\ ~req.options.IncludeCommits /\ req.options.IncludeComments
    /\ Len(gpr.ret.prs) >= 1
    /\ Len(gpr.ret.prs[1].Comments) >= 1
    /\ gpr.ret.prs[1].Commits = <<>> /\ gpr.ret.prs[1].Reviews = <<>>

\* C17: the report of a successful GetActivityReport has the requested window
\* as its TimeRange, Start and End unchanged, and the user GetUser returned as
\* its User, however many repositories failed.
C17_ReportCarriesWindowAndUser ==
    (ReportReturned /\ ~svc.ret.err) =>
        /\ ~svc.ret.isNil
        /\ svc.ret.report.TimeRange.Start = svc.timeRange.Start
        /\ svc.ret.report.TimeRange.End = svc.timeRange.End
        /\ svc.ret.report.User.Username = MockUser.Username
        /\ svc.ret.report.User.Email = MockUser.Email

\* The requested window in the report, one repository failing and one succeeding
C17_Witness ==
    /\ ReportReturned /\ ~svc.ret.err
    /\ svc.timeRange = TimeRange(1, 2)
    /\ svc.ret.report.TimeRange = TimeRange(1, 2)
    /\ Failing # {} /\ Succeeding # {}
    /\ Len(svc.ret.report.Repositories) >= 1

(***************************************************************************)
(* The report formatters.  A text is modelled as the sequence of the       *)
(* pieces written to it: Sprintf(format, args) is one piece, the format    *)
(* string kept as in the source.  An instant is written by time.Format as  *)
(* a day, or as a day and a clock reading, depending on the layout.        *)
(***************************************************************************)
MaxPullRequests == 2

TicksPerDay == 2

Day(t) == t \div TicksPerDay
Clock(t) == t % TicksPerDay

\* t.Format(layout): the layouts without a clock part print the day only
FormatTime(t, layout) ==
    IF layout = "2006-01-02"
    THEN [layout |-> layout, day |-> Day(t), clock |-> 0]
    ELSE [layout |-> layout, day |-> Day(t), clock |-> Clock(t)]

Sprintf(format, args) == [format |-> format, args |-> args]
WriteString(text) == Sprintf(text, <<>>)

\* the loop of allRepositoriesEmpty, from position k on
RECURSIVE allRepositoriesEmptyFrom(_, _)
allRepositoriesEmptyFrom(repositories, k) ==
    IF k > Len(repositories) THEN TRUE
    ELSE IF Len(repositories[k].PullRequests) > 0 THEN FALSE
    ELSE allRepositoriesEmptyFrom(repositories, k + 1)

\* Only the first repository is looked at
allRepositoriesEmptyFirstOnly(repositories) ==
    Len(repositories) = 0 \/ Len(repositories[1].PullRequests) = 0

allRepositoriesEmpty(repositories) == allRepositoriesEmptyFrom(repositories, 1)

\* Only an empty repository list counts as no activity
NoActivityListOnly(report) == Len(report.Repositories) = 0

\* The test every Format starts with
NoActivity(report) ==
    Len(report.Repositories) = 0 \/ allRepositoriesEmpty(report.Repositories)

\* Flatten a sequence of texts
RECURSIVE Concat(_)
Concat(texts) == IF Len(texts) = 0 THEN <<>> ELSE Head(texts) \o Concat(Tail(texts))

\* Group PRs by authored/reviewed
authoredPRs(repo) == SelectSeq(repo.PullRequests, LAMBDA pr : pr.IsAuthored)
reviewedPRs(repo) == SelectSeq(repo.PullRequests, LAMBDA pr : pr.IsReviewed)

(***************************************************************************)
(* JSONFormatter.  json.MarshalIndent writes a struct as an object of its  *)
(* fields in declaration order, a slice as an array, a time.Time as its    *)
(* RFC 3339 text; it fails on a time.Time that RFC 3339 cannot write (a    *)
(* year after 9999).  The instants are UTC.                                *)
(***************************************************************************)
\* 9999-12-31T23:59:59.999999999Z, the last instant with an RFC 3339 text
LastRFC3339 == MaxTime

JSONObject(keys, values) == [keys |-> keys, values |-> values]

\* The time is written with its day only
MarshalTimeDateOnly(t) == FormatTime(t, "2006-01-02")

MarshalTime(t) == FormatTime(t, "2006-01-02T15:04:05.999999999Z07:00")

MarshalTimeRange(tr) ==
    JSONObject(<<"Start", "End">>, <<MarshalTime(tr.Start), MarshalTime(tr.End)>>)

MarshalUser(user) == JSONObject(<<"Username", "Email">>, <<user.Username, user.Email>>)

MarshalCommit(c) ==
    JSONObject(<<"SHA", "Message", "Author", "Timestamp">>,
               <<c.SHA, c.Message, c.Author, MarshalTime(c.Timestamp)>>)

MarshalReview(r) ==
    JSONObject(<<"ID", "Author", "State", "Body", "Timestamp">>,
               <<r.ID, r.Author, r.State, r.Body, MarshalTime(r.Timestamp)>>)

MarshalComment(c) ==
    JSONObject(<<"ID", "Author", "Body", "Timestamp">>,
               <<c.ID, c.Author, c.Body, MarshalTime(c.Timestamp)>>)

MarshalPullRequest(pr) ==
    JSONObject(<<"Number", "Title", "URL", "State", "Commits", "Reviews", "Comments",
                 "IsAuthored", "IsReviewed">>,
               <<pr.Number, pr.Title, pr.URL, pr.State,
                 [k \in 1..Len(pr.Commits) |-> MarshalCommit(pr.Commits[k])],
                 [k \in 1..Len(pr.Reviews) |-> MarshalReview(pr.Reviews[k])],
                 [k \in 1..Len(pr.Comments) |-> MarshalComment(pr.Comments[k])],
                 pr.IsAuthored, pr.IsReviewed>>)

MarshalRepository(repo) ==
    JSONObject(<<"Name", "Organization", "PullRequests">>,
               <<repo.Name, repo.Organization,
                 [k \in 1..Len(repo.PullRequests) |-> MarshalPullRequest(repo.PullRequests[k])]>>)

MarshalReport(report) ==
    JSONObject(<<"TimeRange", "User", "Repositories">>,
               <<MarshalTimeRange(report.TimeRange), MarshalUser(report.User),
                 [k \in 1..Len(report.Repositories) |-> MarshalRepository(report.Repositories[k])]>>)

\* Every time.Time value of the report
InstantsOf(report) ==
    {report.TimeRange.Start, report.TimeRange.End}
    \cup UNION {UNION {{x.Timestamp : x \in Range(pr.Commits) \cup Range(pr.Reviews)
                                              \cup Range(pr.Comments)} :
                       pr \in Range(repo.PullRequests)} :
                repo \in Range(report.Repositories)}

\* json.MarshalIndent returns an error
MarshalFails(report) == \E t \in InstantsOf(report) : t > LastRFC3339

\* JSONFormatter.Format: [content, err]
JSONFormatterFormat(report) ==
    IF NoActivity(report)
    THEN [content |-> FormattedContent("application/json", JSONObject(<<>>, <<>>)), err |-> FALSE]
    ELSE IF MarshalFails(report)
    THEN [content |-> NoContent, err |-> TRUE]
    ELSE [content |-> FormattedContent("application/json", MarshalReport(report)), err |-> FALSE]

(***************************************************************************)
(* json.Unmarshal into an ActivityReport: a field whose key is missing     *)
(* keeps its zero value                                                    *)
(***************************************************************************)
Has(object, key) == \E k \in 1..Len(object.keys) : object.keys[k] = key
Get(object, key) == object.values[CHOOSE k \in 1..Len(object.keys) : object.keys[k] = key]

\* time.Time.UnmarshalJSON: the instant an RFC 3339 text denotes
ParseTime(text) == text.day * TicksPerDay + text.clock

UnmarshalTime(object, key) == IF Has(object, key) THEN ParseTime(Get(object, key)) ELSE ZeroTime

\* A string, number, boolean or array field: the value under the key, or the zero value
Field(object, key, zero) == IF Has(object, key) THEN Get(object, key) ELSE zero

UnmarshalCommit(o) ==
    [SHA |-> Field(o, "SHA", 0), Message |-> Field(o, "Message", ""),
     Author |-> Field(o, "Author", ""), Timestamp |-> UnmarshalTime(o, "Timestamp")]

UnmarshalReview(o) ==
    [ID |-> Field(o, "ID", 0), Author |-> Field(o, "Author", ""),
     State |-> Field(o, "State", ""), Body |-> Field(o, "Body", ""),
     Timestamp |-> UnmarshalTime(o, "Timestamp")]

UnmarshalComment(o) ==
    [ID |-> Field(o, "ID", 0), Author |-> Field(o, "Author", ""),
     Body |-> Field(o, "Body", ""), Timestamp |-> UnmarshalTime(o, "Timestamp")]

UnmarshalPullRequest(o) ==
    LET commits == Field(o, "Commits", <<>>)
        reviews == Field(o, "Reviews", <<>>)
        comments == Field(o, "Comments", <<>>)
    IN  [Number |-> Field(o, "Number", 0), Title |-> Field(o, "Title", ""),
         URL |-> Field(o, "URL", ""), State |-> Field(o, "State", ""),
         IsAuthored |-> Field(o, "IsAuthored", FALSE), IsReviewed |-> Field(o, "IsReviewed", FALSE),
         Commits |-> [k \in 1..Len(commits) |-> UnmarshalCommit(commits[k])],
         Reviews |-> [k \in 1..Len(reviews) |-> UnmarshalReview(reviews[k])],
         Comments |-> [k \in 1..Len(comments) |-> UnmarshalComment(comments[k])]]

UnmarshalRepository(o) ==
    LET prs == Field(o, "PullRequests", <<>>)
    IN  Repository(Field(o, "Name", ""), Field(o, "Organization", ""),
                   [k \in 1..Len(prs) |-> UnmarshalPullRequest(prs[k])])

UnmarshalReport(o) ==
    LET repos == Field(o, "Repositories", <<>>)
    IN  [TimeRange |-> IF Has(o, "TimeRange")
                       THEN TimeRange(UnmarshalTime(Get(o, "TimeRange"), "Start"),
                                      UnmarshalTime(Get(o, "TimeRange"), "End"))
                       ELSE TimeRange(ZeroTime, ZeroTime),
         User |-> IF Has(o, "User")
                  THEN User(Field(Get(o, "User"), "Username", ""),
                            Field(Get(o, "User"), "Email", ""))
                  ELSE User("", ""),
         Repositories |-> [k \in 1..Len(repos) |-> UnmarshalRepository(repos[k])]]

(***************************************************************************)
(* MarkdownFormatter                                                       *)
(***************************************************************************)
MdRepository == "## Repository: %s/%s\n\n"
MdAuthored == "### Authored Pull Requests\n\n"
MdReviewed == "### Reviewed Pull Requests\n\n"
MdPullRequest == "#### [#%d] %s (%s)\n\n"

MdCommits(pr) ==
    IF Len(pr.Commits) > 0
    THEN <<WriteString("**Commits:**\n\n")>>
         \o [k \in 1..Len(pr.Commits) |->
                Sprintf("- %s: %s\n", <<FormatTime(pr.Commits[k].Timestamp, "2006-01-02 15:04"),
                                        pr.Commits[k].Message>>)]
         \o <<WriteString("\n")>>
    ELSE <<>>

MdReviews(pr) ==
    IF Len(pr.Reviews) > 0
    THEN <<WriteString("**Reviews:**\n\n")>>
         \o [k \in 1..Len(pr.Reviews) |->
                Sprintf("- %s (%s): %s\n", <<FormatTime(pr.Reviews[k].Timestamp, "2006-01-02 15:04"),
                                             pr.Reviews[k].State, pr.Reviews[k].Body>>)]
         \o <<WriteString("\n")>>
    ELSE <<>>

MdComments(pr) ==
    IF Len(pr.Comments) > 0
    THEN <<WriteString("**Comments:**\n\n")>>
         \o [k \in 1..Len(pr.Comments) |->
                Sprintf("- %s: %s\n", <<FormatTime(pr.Comments[k].Timestamp, "2006-01-02 15:04"),
                                        pr.Comments[k].Body>>)]
         \o <<WriteString("\n")>>
    ELSE <<>>

MdPullRequestHead(pr) ==
    <<Sprintf(MdPullRequest, <<pr.Number, pr.Title, pr.State>>), Sprintf("URL: %s\n\n", <<pr.URL>>)>>

\* lines 106-137
MdAuthoredSection(prs) ==
    IF Len(prs) > 0
    THEN <<WriteString(MdAuthored)>>
         \o Concat([k \in 1..Len(prs) |->
                       MdPullRequestHead(prs[k]) \o MdCommits(prs[k]) \o MdComments(prs[k])
                           \o <<WriteString("---\n\n")>>])
    ELSE <<>>

\* lines 140-172
MdReviewedSection(prs) ==
    IF Len(prs) > 0
    THEN <<WriteString(MdReviewed)>>
         \o Concat([k \in 1..Len(prs) |->
                       MdPullRequestHead(prs[k]) \o MdReviews(prs[k]) \o MdComments(prs[k])
                           \o <<WriteString("---\n\n")>>])
    ELSE <<>>

\* Every pull request goes to the authored section
MdRepositoryAllAuthored(repo) ==
    IF Len(repo.PullRequests) = 0
    THEN <<>>
    ELSE <<Sprintf(MdRepository, <<repo.Organization, repo.Name>>)>>
         \o MdAuthoredSection(repo.PullRequests)
         \o MdReviewedSection(reviewedPRs(repo))

\* The body of the loop over report.Repositories (lines 87-173)
MdRepositorySection(repo) ==
    IF Len(repo.PullRequests) = 0
    THEN <<>>
    ELSE <<Sprintf(MdRepository, <<repo.Organization, repo.Name>>)>>
         \o MdAuthoredSection(authoredPRs(repo))
         \o MdReviewedSection(reviewedPRs(repo))

MdNoActivity == "No GitHub activity found for the specified time range."

\* MarkdownFormatter.Format: [content, err]
MarkdownFormatterFormat(report) ==
    IF NoActivity(report)
    THEN [content |-> FormattedContent("text/markdown", <<WriteString(MdNoActivity)>>), err |-> FALSE]
    ELSE [content |->
              FormattedContent("text/markdown",
                  <<WriteString("# GitHub Activity Report\n\n"),
                    Sprintf("**Time Range:** %s to %s\n\n",
                            <<FormatTime(report.TimeRange.Start, "2006-01-02"),
                              FormatTime(report.TimeRange.End, "2006-01-02")>>),
                    Sprintf("**User:** %s\n\n", <<report.User.Username>>)>>
                  \o Concat([k \in 1..Len(report.Repositories) |->
                                MdRepositorySection(report.Repositories[k])])),
          err |-> FALSE]

(***************************************************************************)
(* HTMLFormatter                                                           *)
(***************************************************************************)
HtmlRepository == "<h2>Repository: %s/%s</h2>\n"

HtmlNoActivity ==
    "<html><body><h1>GitHub Activity Report</h1><p>No activity found for the specified time range.</p></body></html>"

\* lines 206-225: the document head with its style sheet
HtmlHead ==
    <<WriteString("<!DOCTYPE html>\n<html>\n<head>\n"),
      WriteString("<title>GitHub Activity Report</title>\n"),
      WriteString("<style>\n"),
      WriteString("body { font-family: Arial, sans-serif; margin: 20px; }\n"),
      WriteString("h1 { color: #24292e; }\n"),
      WriteString("h2 { color: #24292e; border-bottom: 1px solid #e1e4e8; padding-bottom: 8px; }\n"),
      WriteString("h3 { margin-top: 20px; color: #0366d6; }\n"),
      WriteString(".pr { background-color: #f6f8fa; border-radius: 3px; padding: 15px; margin-bottom: 15px; }\n"),
      WriteString(".pr-title { font-size: 16px; margin-bottom: 10px; }\n"),
      WriteString(".pr-number { color: #0366d6; font-weight: bold; }\n"),
      WriteString(".pr-state-open { color: #28a745; }\n"),
      WriteString(".pr-state-closed { color: #d73a49; }\n"),
      WriteString(".pr-state-merged { color: #6f42c1; }\n"),
      WriteString(".metadata { color: #586069; font-size: 14px; margin-bottom: 15px; }\n"),
      WriteString(".commits, .reviews, .comments { margin-top: 10px; }\n"),
      WriteString(".commit, .review, .comment { background-color: white; border: 1px solid #e1e4e8; padding: 10px; margin-bottom: 8px; }\n"),
      WriteString(".timestamp { color: #586069; font-size: 12px; }\n"),
      WriteString("</style>\n"),
      WriteString("</head>\n<body>\n")>>

stateClass(pr) ==
    IF pr.State = "closed" THEN "pr-state-closed"
    ELSE IF pr.State = "merged" THEN "pr-state-merged"
    ELSE "pr-state-open"

HtmlTimestamp(t) ==
    Sprintf("<p class=\"timestamp\">%s</p>\n", <<FormatTime(t, "2006-01-02 15:04:05")>>)

HtmlCommits(pr) ==
    IF Len(pr.Commits) > 0
    THEN <<WriteString("<div class=\"commits\">\n"), WriteString("<h5>Commits</h5>\n")>>
         \o Concat([k \in 1..Len(pr.Commits) |->
                       <<WriteString("<div class=\"commit\">\n"),
                         Sprintf("<p>%s</p>\n", <<pr.Commits[k].Message>>),
                         HtmlTimestamp(pr.Commits[k].Timestamp),
                         WriteString("</div>\n")>>])
         \o <<WriteString("</div>\n")>>
    ELSE <<>>

HtmlReviews(pr) ==
    IF Len(pr.Reviews) > 0
    THEN <<WriteString("<div class=\"reviews\">\n"), WriteString("<h5>Reviews</h5>\n")>>
         \o Concat([k \in 1..Len(pr.Reviews) |->
                       <<WriteString("<div class=\"review\">\n"),
                         Sprintf("<p><strong>%s</strong></p>\n", <<pr.Reviews[k].State>>)>>
                       \o (IF pr.Reviews[k].Body # ""
                           THEN <<Sprintf("<p>%s</p>\n", <<pr.Reviews[k].Body>>)>>
                           ELSE <<>>)
                       \o <<HtmlTimestamp(pr.Reviews[k].Timestamp), WriteString("</div>\n")>>])
         \o <<WriteString("</div>\n")>>
    ELSE <<>>

HtmlComments(pr) ==
    IF Len(pr.Comments) > 0
    THEN <<WriteString("<div class=\"comments\">\n"), WriteString("<h5>Comments</h5>\n")>>
         \o Concat([k \in 1..Len(pr.Comments) |->
                       <<WriteString("<div class=\"comment\">\n"),
                         Sprintf("<p>%s</p>\n", <<pr.Comments[k].Body>>),
                         HtmlTimestamp(pr.Comments[k].Timestamp),
                         WriteString("</div>\n")>>])
         \o <<WriteString("</div>\n")>>
    ELSE <<>>

HtmlPullRequestHead(pr) ==
    <<WriteString("<div class=\"pr\">\n"),
      Sprintf("<h4><span class=\"pr-number\">#%d</span> <span class=\"pr-title\">%s</span> <span class=\"%s\">(%s)</span></h4>\n",
              <<pr.Number, pr.Title, stateClass(pr), pr.State>>),
      Sprintf("<p><a href=\"%s\">%s</a></p>\n", <<pr.URL, pr.URL>>)>>

\* lines 255-299
HtmlAuthoredSection(prs) ==
    IF Len(prs) > 0
    THEN <<WriteString("<h3>Authored Pull Requests</h3>\n")>>
         \o Concat([k \in 1..Len(prs) |->
                       HtmlPullRequestHead(prs[k]) \o HtmlCommits(prs[k]) \o HtmlComments(prs[k])
                           \o <<WriteString("</div>\n")>>])
    ELSE <<>>

\* lines 302-355
HtmlReviewedSection(prs) ==
    IF Len(prs) > 0
    THEN <<WriteString("<h3>Reviewed Pull Requests</h3>\n")>>
         \o Concat([k \in 1..Len(prs) |->
                       HtmlPullRequestHead(prs[k]) \o HtmlReviews(prs[k]) \o HtmlComments(prs[k])
                           \o <<WriteString("</div>\n")>>])
    ELSE <<>>

\* The heading is written for a repository without pull requests too
HtmlRepositoryAlways(repo) ==
    <<Sprintf(HtmlRepository, <<repo.Organization, repo.Name>>)>>
    \o HtmlAuthoredSection(authoredPRs(repo))
    \o HtmlReviewedSection(reviewedPRs(repo))

\* The body of the loop over report.Repositories (lines 236-356)
HtmlRepositorySection(repo) ==
    IF Len(repo.PullRequests) = 0
    THEN <<>>
    ELSE <<Sprintf(HtmlRepository, <<repo.Organization, repo.Name>>)>>
         \o HtmlAuthoredSection(authoredPRs(repo))
         \o HtmlReviewedSection(reviewedPRs(repo))

\* HTMLFormatter.Format: [content, err]
HTMLFormatterFormat(report) ==
    IF NoActivity(report)
    THEN [content |-> FormattedContent("text/html", <<WriteString(HtmlNoActivity)>>), err |-> FALSE]
    ELSE [content |->
              FormattedContent("text/html",
                  HtmlHead
                  \o <<WriteString("<h1>GitHub Activity Report</h1>\n"),
                       WriteString("<div class=\"metadata\">\n"),
                       Sprintf("<p><strong>Time Range:</strong> %s to %s</p>\n",
                               <<FormatTime(report.TimeRange.Start, "2006-01-02"),
                                 FormatTime(report.TimeRange.End, "2006-01-02")>>),
                       Sprintf("<p><strong>User:</strong> %s</p>\n", <<report.User.Username>>),
                       WriteString("</div>\n")>>
                  \o Concat([k \in 1..Len(report.Repositories) |->
                                HtmlRepositorySection(report.Repositories[k])])
                  \o <<WriteString("</body>\n</html>")>>),
          err |-> FALSE]

(***************************************************************************)
(* The formatters called on a report, as the formatter tests do            *)
(***************************************************************************)
\* A pull request of a report: authored?, reviewed?, with activity?
PRKinds == BOOLEAN \X BOOLEAN \X BOOLEAN

FormatPullRequest(number, repo, kind, at) ==
    LET raw == [ID |-> 1, Login |-> Username, At |-> at]
    IN  [PullRequest(number, repo, kind[1], kind[2]) EXCEPT
            !.Commits = IF kind[3] THEN <<Commit(raw)>> ELSE <<>>,
            !.Reviews = IF kind[3] THEN <<Review(raw)>> ELSE <<>>,
            !.Comments = IF kind[3] THEN <<Comment(raw)>> ELSE <<>>]

\* The pull request lists of n repositories with at most budget pull requests in all
RECURSIVE ReportShapes(_, _)
ReportShapes(n, budget) ==
    IF n = 0 THEN {<<>>}
    ELSE UNION {{<<prs>> \o rest : rest \in ReportShapes(n - 1, budget - Len(prs))} :
                prs \in SeqsUpTo(PRKinds, budget)}

\* Windows of a report: at the zero instant, inside one day, and ending after year 9999
FormatWindows ==
    {TimeRange(ZeroTime, ZeroTime + 1), TimeRange(LastRFC3339 - 1, LastRFC3339),
     TimeRange(LastRFC3339, LastRFC3339 + 1)}

Report(shape, window) ==
    [TimeRange |-> window,
     User |-> MockUser,
     Repositories |->
        [k \in 1..Len(shape) |->
            Repository(AllNames[k], Org,
                       [j \in 1..Len(shape[k]) |->
                           FormatPullRequest(j, AllNames[k], shape[k][j], window.Start)])]]

Reports ==
    {Report(shape, window) :
        shape \in UNION {ReportShapes(n, MaxPullRequests) : n \in 0..MaxRepos},
        window \in FormatWindows}

Formatted(d, name, result) ==
    [d EXCEPT !.pc = "formatted", !.formatter = name, !.content = result.content, !.err = result.err]

FormatJSON ==
    /\ doc.pc = "ready"
    /\ doc' = Formatted(doc, "json", JSONFormatterFormat(doc.report))
    /\ UNCHANGED <<trq, svcVars, repoVars, plugin>>

FormatMarkdown ==
    /\ doc.pc = "ready"
    /\ doc' = Formatted(doc, "markdown", MarkdownFormatterFormat(doc.report))
    /\ UNCHANGED <<trq, svcVars, repoVars, plugin>>

FormatHTML ==
    /\ doc.pc = "ready"
    /\ doc' = Formatted(doc, "html", HTMLFormatterFormat(doc.report))
    /\ UNCHANGED <<trq, svcVars, repoVars, plugin>>

\* json.Unmarshal([]byte(content.Content), &parsedReport)
ParseJSON ==
    /\ doc.pc = "formatted"
    /\ doc.formatter = "json"
    /\ ~doc.err
    /\ doc' = [doc EXCEPT !.pc = "parsed", !.parsed = UnmarshalReport(doc.content.Content)]
    /\ UNCHANGED <<trq, svcVars, repoVars, plugin>>

InitFormat ==
    /\ \E report \in Reports : doc = [NoDoc EXCEPT !.pc = "ready", !.report = report]
    /\ plugin = NoPlugin
    /\ trq = NoTrq
    /\ config = <<>>
    /\ port \in Ports({})
    /\ svc = IdleSvc
    /\ workers = <<>>
    /\ chan = NoChan
    /\ last = NoLast
    /\ req = NoReq
    /\ gpr = NoGpr
    /\ calls = <<>>

NextFormat ==
    \/ FormatJSON
    \/ FormatMarkdown
    \/ FormatHTML
    \/ ParseJSON

SpecFormat == InitFormat /\ [][NextFormat]_vars

\* A report is empty: no repository, or no repository with a pull request
EmptyReport(report) ==
    \A k \in 1..Len(report.Repositories) : Len(report.Repositories[k].PullRequests) = 0

\* A Format result is the formatter's fixed empty document
IsEmptyDocument(formatter, result) ==
    /\ ~result.err
    /\ CASE formatter = "json" ->
                /\ result.content.ContentType = "application/json"
                /\ Len(result.content.Content.keys) = 0
         [] formatter = "markdown" ->
                /\ result.content.ContentType = "text/markdown"
                /\ Len(result.content.Content) = 1
                /\ result.content.Content[1].format = MdNoActivity
         [] formatter = "html" ->
                /\ result.content.ContentType = "text/html"
                /\ Len(result.content.Content) = 1
                /\ result.content.Content[1].format = HtmlNoActivity

DocFormatted == doc.pc \in {"formatted", "parsed"}

\* C13: each formatter returns its fixed empty document iff the report has no
\* repository or only repositories without pull requests; on any report the
\* three formatters return their empty documents together or not at all.
C13_FormattersAgreeOnEmptiness ==
    /\ DocFormatted =>
          (IsEmptyDocument(doc.formatter, [content |-> doc.content, err |-> doc.err])
              <=> EmptyReport(doc.report))
    /\ doc.pc # "off" =>
          LET j == IsEmptyDocument("json", JSONFormatterFormat(doc.report))
              m == IsEmptyDocument("markdown", MarkdownFormatterFormat(doc.report))
              h == IsEmptyDocument("html", HTMLFormatterFormat(doc.report))
          IN  (j /\ m /\ h) \/ (~j /\ ~m /\ ~h)

\* The HTML formatter on a report of two repositories, both without pull requests
C13_Witness ==
    /\ DocFormatted
    /\ doc.formatter = "html"
    /\ Len(doc.report.Repositories) = 2
    /\ EmptyReport(doc.report)
    /\ doc.content.Content[1].format = HtmlNoActivity

\* C14: allRepositoriesEmpty(repos) is true iff no repository of the list, in
\* whatever position, has a pull request (so it is true of the empty list).
C14_AllRepositoriesEmpty ==
    doc.pc # "off" =>
        (allRepositoriesEmpty(doc.report.Repositories)
            <=> ~\E k \in 1..Len(doc.report.Repositories) :
                    Len(doc.report.Repositories[k].PullRequests) >= 1)

\* Only the last of three repositories has a pull request
C14_Witness ==
    /\ DocFormatted
    /\ Len(doc.report.Repositories) = 3
    /\ Len(doc.report.Repositories[1].PullRequests) = 0
    /\ Len(doc.report.Repositories[2].PullRequests) = 0
    /\ Len(doc.report.Repositories[3].PullRequests) >= 1
    /\ ~allRepositoriesEmpty(doc.report.Repositories)
    /\ ~IsEmptyDocument(doc.formatter, [content |-> doc.content, err |-> doc.err])

\* The last piece before position i whose format is one of formats (0: none)
LastBefore(content, i, formats) ==
    LET S == {j \in 1..(i - 1) : content[j].format \in formats}
    IN  IF S = {} THEN 0 ELSE CHOOSE j \in S : \A h \in S : h <= j

\* The pull request headings under the given subsection heading of a repository
ListedUnder(content, repo, heading) ==
    {i \in 1..Len(content) :
        /\ content[i].format = MdPullRequest
        /\ LET r == LastBefore(content, i, {MdRepository})
               h == LastBefore(content, i, {MdAuthored, MdReviewed})
           IN  /\ r > 0
               /\ content[r].args = <<repo.Organization, repo.Name>>
               /\ h > r
               /\ content[h].format = heading}

TimesListed(content, repo, heading, number) ==
    Cardinality({i \in ListedUnder(content, repo, heading) : content[i].args[1] = number})

\* C15: in the Markdown text a pull request is listed under "Authored Pull
\* Requests" of its repository once if IsAuthored and not at all otherwise,
\* and under "Reviewed Pull Requests" once if IsReviewed and not at all
\* otherwise; and nothing else is listed.
C15_MarkdownSections ==
    (doc.pc = "formatted" /\ doc.formatter = "markdown") =>
        LET content == doc.content.Content
            repos == doc.report.Repositories
        IN  /\ \A k \in 1..Len(repos) : \A j \in 1..Len(repos[k].PullRequests) :
                  LET pr == repos[k].PullRequests[j]
                  IN  /\ TimesListed(content, repos[k], MdAuthored, pr.Number)
                            = (IF pr.IsAuthored THEN 1 ELSE 0)
                      /\ TimesListed(content, repos[k], MdReviewed, pr.Number)
                            = (IF pr.IsReviewed THEN 1 ELSE 0)
            /\ \A i \in 1..Len(content) :
                  content[i].format = MdPullRequest =>
                      \E k \in 1..Len(repos) :
                          i \in ListedUnder(content, repos[k], MdAuthored)
                                    \cup ListedUnder(content, repos[k], MdReviewed)

\* One repository with a pull request of both flags and one of neither
C15_Witness ==
    /\ doc.pc = "formatted" /\ doc.formatter = "markdown"
    /\ Len(doc.report.Repositories) = 1
    /\ Len(doc.report.Repositories[1].PullRequests) = 2
    /\ LET repo == doc.report.Repositories[1]
           both == repo.PullRequests[1]
           neither == repo.PullRequests[2]
       IN  /\ both.IsAuthored /\ both.IsReviewed
           /\ ~neither.IsAuthored /\ ~neither.IsReviewed
           /\ TimesListed(doc.content.Content, repo, MdAuthored, both.Number) = 1
           /\ TimesListed(doc.content.Content, repo, MdReviewed, both.Number) = 1
           /\ TimesListed(doc.content.Content, repo, MdAuthored, neither.Number) = 0
           /\ TimesListed(doc.content.Content, repo, MdReviewed, neither.Number) = 0

\* Formatting as JSON and parsing back gives the Username and the TimeRange
RoundTrip ==
    /\ ~doc.err
    /\ doc.pc = "parsed" =>
          /\ doc.parsed.User.Username = doc.report.User.Username
          /\ doc.parsed.TimeRange.Start = doc.report.TimeRange.Start
          /\ doc.parsed.TimeRange.End = doc.report.TimeRange.End

SettingsSet ==
    {[k \in SettingKeys |->
        CASE k = "github.repositories" -> repositories
          [] k = "github.username" -> username
          [] k = "github.organization" -> organization
          [] k = "github.format" -> format
          [] k = "github.query.base_branch" -> branch
          [] k = "github.query.include_authored" -> authored
          [] k = "github.query.include_reviewed" -> reviewed] :
        repositories \in {NotAString, Str("repo1"), Str("repo1, repo2")},
        username \in {NotAString, Str(Username)},
        organization \in {NotAString, Str(Org)},
        format \in {NotAString, Str(""), Str("json"), Str("html"), Str("markdown"), Str("xml")},
        branch \in {NotAString, Str(""), Str("main")},
        authored \in {NotAString, Str(""), Str("true"), Str("false")},
        reviewed \in {NotAString, Str(""), Str("true"), Str("false")}}

\* strings.Split(reposStr, ",") and strings.TrimSpace of each part
SplitRepositories(reposStr) ==
    IF reposStr = "repo1, repo2" THEN <<"repo1", "repo2">> ELSE <<reposStr>>

\* lines 111-124: the defaults, overridden by the settings that are non-empty strings
QueryOptionsFrom(settings) ==
    LET baseBranch == settings["github.query.base_branch"]
        includeAuthored == settings["github.query.include_authored"]
        includeReviewed == settings["github.query.include_reviewed"]
    IN  [DefaultQueryOptions EXCEPT
            !.BaseBranch = IF baseBranch.isString /\ baseBranch.value # ""
                           THEN baseBranch.value ELSE @,
            !.IncludeAuthored = IF includeAuthored.isString /\ includeAuthored.value # ""
                                THEN includeAuthored.value = "true" ELSE @,
            !.IncludeReviewed = IF includeReviewed.isString /\ includeReviewed.value # ""
                                THEN includeReviewed.value = "true" ELSE @]

\* The Markdown formatter whatever the setting says
SelectFormatterAlwaysMarkdown(setting) == "markdown"

\* lines 147-162: the Name() of the formatter chosen
SelectFormatter(setting) ==
    LET format == IF ~setting.isString \/ setting.value = "" THEN "markdown" ELSE setting.value
    IN  CASE format = "json" -> "json"
          [] format = "html" -> "html"
          [] format = "markdown" -> "markdown"
          [] OTHER -> "markdown"

InitializeFails(p, message) == [p EXCEPT !.pc = "failed", !.err = message]

Initialize ==
    /\ plugin.pc = "new"
    /\ LET settings == plugin.settings
       IN  plugin' =
             IF ~plugin.tokenOk THEN InitializeFails(plugin, "failed to get gh cli token")
             ELSE IF ~settings["github.repositories"].isString
             THEN InitializeFails(plugin, "repositories are required")
             ELSE IF ~settings["github.username"].isString
             THEN InitializeFails(plugin, "username is required")
             ELSE IF ~settings["github.organization"].isString
             THEN InitializeFails(plugin, "organization is required")
             ELSE [plugin EXCEPT
                      !.pc = "initialized",
                      !.config = [Username |-> settings["github.username"].value,
                                  Organization |-> settings["github.organization"].value,
                                  Repositories |->
                                      SplitRepositories(settings["github.repositories"].value),
                                  QueryOptions |-> QueryOptionsFrom(settings)],
                      !.formatter = SelectFormatter(settings["github.format"])]
    /\ UNCHANGED <<trq, svcVars, repoVars, doc>>

InitPlugin ==
    /\ \E settings \in SettingsSet, tokenOk \in BOOLEAN :
          plugin = [NoPlugin EXCEPT !.pc = "new", !.settings = settings, !.tokenOk = tokenOk]
    /\ doc = NoDoc
    /\ trq = NoTrq
    /\ config = <<>>
    /\ port \in Ports({})
    /\ svc = IdleSvc
    /\ workers = <<>>
    /\ chan = NoChan
    /\ last = NoLast
    /\ req = NoReq
    /\ gpr = NoGpr
    /\ calls = <<>>

\* g.formatter.Format(report): the call goes to the formatter stored by Initialize
FormatterFormat(formatter, report) ==
    CASE formatter = "json" -> JSONFormatterFormat(report)
      [] formatter = "html" -> HTMLFormatterFormat(report)
      [] formatter = "markdown" -> MarkdownFormatterFormat(report)

\* What g.service.GetActivityReport may hand to GetStandupContext
ContextReports ==
    {Report(shape, window) : shape \in {<<>>} \cup ReportShapes(1, 1), window \in FormatWindows}

\* GetStandupContext, lines 171-188: the service's report or error, then Format
GetStandupContext ==
    /\ plugin.pc = "initialized"
    /\ \/ plugin' = [plugin EXCEPT !.context =
                         [NoContext EXCEPT !.pc = "returned",
                                           !.err = "failed to get activity report"]]
       \/ \E report \in ContextReports :
             LET result == FormatterFormat(plugin.formatter, report)
             IN  plugin' = [plugin EXCEPT !.context =
                               IF result.err
                               THEN [NoContext EXCEPT !.pc = "returned", !.report = report,
                                                      !.err = "failed to format activity report"]
                               ELSE [NoContext EXCEPT !.pc = "returned", !.report = report,
                                                      !.formatted = result.content]]
    /\ UNCHANGED <<trq, svcVars, repoVars, doc>>

NextPlugin ==
    \/ Initialize
    \/ GetStandupContext

SpecPlugin == InitPlugin /\ [][NextPlugin]_vars

Overrides(setting) == setting.isString /\ setting.value # ""

\* C18: DefaultQueryOptions returns BaseBranch "master", MaxResults 100 and the
\* four inclusion toggles true; a plugin initialised from it has these values
\* wherever no setting overrides them.
C18_DefaultQueryOptions ==
    /\ DefaultQueryOptions.BaseBranch = "master"
    /\ DefaultQueryOptions.MaxResults = 100
    /\ DefaultQueryOptions.IncludeAuthored /\ DefaultQueryOptions.IncludeReviewed
    /\ DefaultQueryOptions.IncludeComments /\ DefaultQueryOptions.IncludeCommits
    /\ plugin.pc = "initialized" =>
          LET q == plugin.config.QueryOptions
          IN  /\ q.MaxResults = 100 /\ q.IncludeComments /\ q.IncludeCommits
              /\ ~Overrides(plugin.settings["github.query.base_branch"]) => q.BaseBranch = "master"
              /\ ~Overrides(plugin.settings["github.query.include_authored"]) => q.IncludeAuthored
              /\ ~Overrides(plugin.settings["github.query.include_reviewed"]) => q.IncludeReviewed

\* A plugin initialised without any query setting
C18_Witness ==
    /\ plugin.pc = "initialized"
    /\ ~plugin.settings["github.query.base_branch"].isString
    /\ ~plugin.settings["github.query.include_authored"].isString
    /\ ~plugin.settings["github.query.include_reviewed"].isString
    /\ plugin.config.QueryOptions.BaseBranch = "master"
    /\ plugin.config.QueryOptions.MaxResults = 100
    /\ plugin.config.QueryOptions.IncludeAuthored /\ plugin.config.QueryOptions.IncludeReviewed
    /\ plugin.config.QueryOptions.IncludeComments /\ plugin.config.QueryOptions.IncludeCommits

\* C21: with IncludeComments the comments attached to a returned pull request
\* are exactly the fetched ones written by the target user with a creation
\* time inside the window, unchanged and in the order of the remote's answer.
C21_CommentsExact ==
    (PullRequestsReturned /\ req.options.IncludeComments) =>
        \A i \in Returned :
            LET raws == gpr.fetched[i].comments
                got == gpr.ret.prs[i].Comments
            IN  /\ \A k \in 1..Len(raws) :
                      (\E c \in 1..Len(got) : got[c].ID = raws[k].ID)
                          <=> /\ raws[k].Login = Username
                              /\ req.timeRange.Start <= raws[k].At
                              /\ raws[k].At < req.timeRange.End
                /\ \A c \in 1..Len(got) :
                      \E k \in 1..Len(raws) :
                          /\ raws[k].ID = got[c].ID
                          /\ got[c].Author = raws[k].Login
                          /\ got[c].Timestamp = raws[k].At
                /\ \A a, b \in 1..Len(got) : a < b => got[a].ID < got[b].ID

\* Of two fetched comments inside the window only the target user's is attached
C21_Witness ==
    /\ PullRequestsReturned /\ req.options.IncludeComments
    /\ \E i \in Returned :
         /\ Len(gpr.fetched[i].comments) = 2
         /\ gpr.fetched[i].comments[1].Login = OtherUser
         /\ gpr.fetched[i].comments[2].Login = Username
         /\ \A k \in 1..2 : IsInRange(req.timeRange, gpr.fetched[i].comments[k].At)
         /\ Len(gpr.ret.prs[i].Comments) = 1
         /\ gpr.ret.prs[i].Comments[1].ID = 2

\* C22: GetActivityReport takes the concurrent path iff more than one
\* repository is configured: then one worker per configured entry is started
\* before anything is collected; with one or no repository no worker, channel
\* or closer exists, and with none the report has an empty list and no error.
C22_Dispatch ==
    (svc.entry = "GetActivityReport" /\ svc.user = "ok") =>
        /\ Len(config) > 1 =>
              /\ chan.made
              /\ svc.pc \in {"conc_spawn", "collect", "done"}
              /\ Len(workers) = Len(config)
              /\ svc.pc = "conc_spawn" => svc.repositories = <<>>
              /\ svc.pc \in {"collect", "done"} =>
                    \A k \in 1..Len(config) :
                        workers[k].pc # "unborn" /\ workers[k].repoName = config[k]
        /\ Len(config) <= 1 =>
              /\ ~chan.made /\ chan.closer = "unborn"
              /\ svc.pc \in {"seq_loop", "done"}
              /\ \A k \in 1..Len(workers) : workers[k].pc = "unborn"
        /\ (Len(config) = 0 /\ svc.pc = "done") =>
              /\ ~svc.ret.err /\ ~svc.ret.isNil
              /\ svc.ret.report.Repositories = <<>>

\* Two repositories: both workers were started and the report holds both results
C22_Witness ==
    /\ ReportReturned /\ svc.user = "ok"
    /\ Len(config) = 2
    /\ chan.made /\ chan.closed
    /\ \A k \in 1..2 : workers[k].pc = "done"
    /\ Len(svc.ret.report.Repositories) = 2

\* The configured entries whose GetPullRequests succeeds, in configuration order
SucceedingInOrder(c) == SelectSeq(c, LAMBDA n : ~port[n].err)

SequentialPath ==
    \/ svc.entry = "processRepositoriesSequentially"
    \/ svc.entry = "GetActivityReport" /\ svc.user = "ok" /\ Len(config) <= 1

\* C23: the sequential path returns the succeeding repositories in
\* configuration order, failed ones in between or not (the order of the
\* concurrent path is not constrained).
C23_SequentialOrder ==
    /\ (SequentialPath /\ svc.pc = "seq_loop") =>
          NamesOf(svc.repositories) = SucceedingInOrder(SubSeq(config, 1, svc.i - 1))
    /\ (SequentialPath /\ svc.pc = "done") =>
          NamesOf(ReturnedRepositories) = SucceedingInOrder(config)
    /\ last.set => NamesOf(last.repos) = SucceedingInOrder(config)

\* Three repositories, the second failing: the sequential call returned the
\* first and the third in this order, the concurrent call after it the
\* third before the first
C23_Witness ==
    /\ Len(config) = 3
    /\ ~port[config[1]].err /\ port[config[2]].err /\ ~port[config[3]].err
    /\ config[1] # config[3]
    /\ last.set /\ NamesOf(last.repos) = <<config[1], config[3]>>
    /\ svc.entry = "processRepositoriesConcurrently" /\ svc.pc = "done"
    /\ NamesOf(svc.repositories) = <<config[3], config[1]>>

\* The arguments of the repository headings of a text, in order
RepositoryHeadings(content, heading) ==
    LET at == SelectSeq([i \in 1..Len(content) |-> i], LAMBDA i : content[i].format = heading)
    IN  [k \in 1..Len(at) |-> content[at[k]].args]

\* The (organization, name) of the repositories with a pull request, in order
ActiveRepositories(report) ==
    LET active == SelectSeq(report.Repositories, LAMBDA repo : Len(repo.PullRequests) >= 1)
    IN  [k \in 1..Len(active) |-> <<active[k].Organization, active[k].Name>>]

\* C24: in the Markdown and the HTML text of a non-empty report the headings
\* "Repository: org/name" are those of the repositories with at least one
\* pull request, each once and in order; a repository without pull requests
\* has none.
C24_EmptyRepositoriesSkipped ==
    (doc.pc = "formatted" /\ ~EmptyReport(doc.report)) =>
        /\ doc.formatter = "markdown" =>
              RepositoryHeadings(doc.content.Content, MdRepository) = ActiveRepositories(doc.report)
        /\ doc.formatter = "html" =>
              RepositoryHeadings(doc.content.Content, HtmlRepository) = ActiveRepositories(doc.report)

\* The HTML text of three repositories of which the second has no pull request
C24_Witness ==
    /\ doc.pc = "formatted" /\ doc.formatter = "html"
    /\ Len(doc.report.Repositories) = 3
    /\ Len(doc.report.Repositories[1].PullRequests) = 1
    /\ Len(doc.report.Repositories[2].PullRequests) = 0
    /\ Len(doc.report.Repositories[3].PullRequests) = 1
    /\ RepositoryHeadings(doc.content.Content, HtmlRepository)
          = <<<<Org, AllNames[1]>>, <<Org, AllNames[3]>>>>

\* The formatter that the github.format setting asks for
FormatterOf(setting) ==
    IF setting = Str("json") THEN "json"
    ELSE IF setting = Str("html") THEN "html"
    ELSE "markdown"

ContentTypeOf(formatter) ==
    CASE formatter = "json" -> "application/json"
      [] formatter = "html" -> "text/html"
      [] formatter = "markdown" -> "text/markdown"

\* C25: Initialize stores the formatter named by github.format ("json", "html",
\* "markdown"; Markdown for a missing, empty or other value), and every
\* GetStandupContext call that gets a report renders it with that formatter.
C25_FormatterSelectedOnce ==
    plugin.pc = "initialized" =>
        LET expected == FormatterOf(plugin.settings["github.format"])
            context == plugin.context
        IN  /\ plugin.formatter = expected
            /\ (context.pc = "returned" /\ context.err = "") =>
                  /\ context.formatted.ContentType = ContentTypeOf(expected)
                  /\ context.formatted = FormatterFormat(expected, context.report).content
            /\ (context.pc = "returned" /\ context.err = "failed to format activity report") =>
                  /\ expected = "json"
                  /\ JSONFormatterFormat(context.report).err

\* A plugin set to "html" has rendered a report with a pull request as HTML
C25_Witness ==
    /\ plugin.pc = "initialized"
    /\ plugin.settings["github.format"] = Str("html")
    /\ plugin.formatter = "html"
    /\ plugin.context.pc = "returned"
    /\ plugin.context.err = ""
    /\ ~EmptyReport(plugin.context.report)
    /\ plugin.context.formatted.ContentType = "text/html"
    /\ RepositoryHeadings(plugin.context.formatted.Content, HtmlRepository) = <<<<Org, AllNames[1]>>>>

\* processRepositoriesConcurrently is running or has run in this call
ConcurrentPath == chan.made

ConcurrentStarted == ConcurrentPath /\ svc.pc = "conc_spawn"

\* Every worker has finished, the channel is closed and drained, the collector has returned
ConcurrentFinished ==
    /\ ConcurrentPath
    /\ svc.pc = "done"
    /\ chan.closed /\ chan.closer = "done"
    /\ Len(chan.buf) = 0
    /\ \A k \in DOMAIN workers : workers[k].pc = "done"

\* C26: under the scheduler's fairness, whatever the number of repositories
\* and whichever of them fail, a started processRepositoriesConcurrently
\* reaches the state where every worker has finished, the channel is closed
\* and the collector has returned.
C26_ConcurrentTerminates == ConcurrentStarted ~> ConcurrentFinished

\* Finished with three workers of which one failed and two sent a result
C26_Witness ==
    /\ ConcurrentFinished
    /\ Len(workers) = 3
    /\ Len(svc.repositories) = 2

\* Worker k has sent its result: it got past the send of a successful processRepository
HasSent(k) ==
    /\ workers[k].pc \in {"exit", "done"}
    /\ ~processRepository(Org, workers[k].repoName, svc.timeRange).err

SentCount == Cardinality({k \in DOMAIN workers : HasSent(k)})

\* C27: in every state of processRepositoriesConcurrently the channel has been
\* closed at most once, and only when every worker has finished (exactly once
\* when the collector has returned); no worker sends on the closed channel; a
\* worker about to send finds room; the results sent, waiting in the channel
\* or collected, are one per successful worker and never more than the
\* capacity; and the collector returns with every result sent.
C27_ChannelSafety ==
    ConcurrentPath =>
        /\ chan.closes <= 1
        /\ chan.closed <=> chan.closes = 1
        /\ chan.closed => \A k \in DOMAIN workers : workers[k].pc = "done"
        /\ svc.pc = "done" => chan.closes = 1
        /\ chan.cap = Len(config)
        /\ \A k \in DOMAIN workers :
              /\ workers[k].pc # "panic"
              /\ workers[k].pc = "send" => (~chan.closed /\ Len(chan.buf) < chan.cap)
        /\ Len(chan.buf) + Len(svc.repositories) = SentCount
        /\ SentCount <= chan.cap
        /\ svc.pc = "done" =>
              /\ Len(chan.buf) = 0
              /\ Len(svc.repositories)
                    = Cardinality({k \in DOMAIN workers :
                          ~processRepository(Org, workers[k].repoName, svc.timeRange).err})

\* Two workers have sent and the third is about to, before the collector took anything
C27_Witness ==
    /\ ConcurrentPath
    /\ Len(workers) = 3
    /\ svc.pc = "collect"
    /\ Len(chan.buf) = 2
    /\ Len(svc.repositories) = 0
    /\ \E k \in DOMAIN workers : workers[k].pc = "send"
    /\ ~chan.closed

InGetActivityReport == svc.entry = "GetActivityReport"

NoPullRequestsCall == \A n \in RepoNames : svc.prCalls[n] = 0
NoWorkerStarted == \A k \in DOMAIN workers : workers[k].pc = "unborn"

\* C28: in a GetActivityReport call GetUser has been called once as soon as
\* the call is past it and never again; no GetPullRequests call and no worker
\* precedes it; and after a failed GetUser the call has returned with no
\* GetPullRequests call, no channel and no worker.
C28_GetUserOnceAndFirst ==
    InGetActivityReport =>
        /\ svc.userCalls = (IF svc.pc = "getUser" THEN 0 ELSE 1)
        /\ svc.pc = "getUser" => svc.user = "none"
        /\ svc.user # "ok" => (NoPullRequestsCall /\ NoWorkerStarted /\ ~chan.made)
        /\ svc.user = "failed" => (svc.pc = "done" /\ svc.ret.returned /\ svc.ret.err)

\* GetUser failed for a configuration of three repositories
C28_Witness ==
    /\ InGetActivityReport
    /\ Len(config) = 3
    /\ svc.user = "failed"
    /\ svc.userCalls = 1
    /\ svc.pc = "done"
    /\ NoPullRequestsCall
    /\ NoWorkerStarted

\* The repositories are being processed or have been (GetUser, if called, succeeded)
Processing == svc.pc \in {"seq_loop", "conc_spawn", "collect", "done"} /\ svc.user # "failed"

\* Entries of the configured list whose GetPullRequests call has been made
EntriesCalled ==
    IF ConcurrentPath
    THEN {k \in DOMAIN workers : workers[k].pc \notin {"unborn", "run"}}
    ELSE 1..(svc.i - 1)

\* C29: while the repositories are processed, GetPullRequests has been called
\* once for each entry handled so far and for no other, always with the
\* organization, the entry's name, the requested window and the configured
\* query options; when the path has returned, that is once for each entry
\* of the configured list, whichever calls failed.
C29_OneCallPerEntry ==
    Processing =>
        /\ \A n \in RepoNames :
              svc.prCalls[n] = Cardinality({k \in EntriesCalled : config[k] = n})
        /\ svc.prArgs = {<<Org, config[k], svc.timeRange, DefaultQueryOptions>> : k \in EntriesCalled}
        /\ svc.pc = "done" => EntriesCalled = 1..Len(config)

\* The sequential path has returned for three repositories of which the first failed
C29_Witness ==
    /\ svc.entry = "processRepositoriesSequentially"
    /\ svc.pc = "done"
    /\ Len(config) = 3
    /\ port[config[1]].err
    /\ \A k \in 1..3 : svc.prCalls[config[k]] = 1
    /\ Cardinality(svc.prArgs) = 3

\* The remote calls of the enrichment of pull request pr, in the order of the loop body
EnrichmentCalls(pr) ==
    (IF req.options.IncludeCommits THEN <<<<"ListCommits", pr.Number>>>> ELSE <<>>)
    \o (IF req.options.IncludeComments THEN <<<<"ListComments", pr.Number>>>> ELSE <<>>)
    \o (IF pr.IsReviewed THEN <<<<"ListReviews", pr.Number>>>> ELSE <<>>)

\* The remote calls GetPullRequests makes for the pull requests found so far, if none fails
CallsInOrder ==
    (IF req.options.IncludeAuthored THEN <<<<"searchAuthored", 0>>>> ELSE <<>>)
    \o (IF req.options.IncludeReviewed THEN <<<<"searchReviewed", 0>>>> ELSE <<>>)
    \o Concat([i \in 1..Len(gpr.allPRs) |-> EnrichmentCalls(gpr.allPRs[i])])

CallsMade == [k \in 1..Len(calls) |-> <<calls[k].call, calls[k].number>>]

\* C30: the remote calls made so far are the first ones of the fixed order
\* (authored search, reviewed search, then commits, comments and reviews of
\* each pull request in turn); a failed call is the last call made and
\* GetPullRequests has returned on it; without a failure a returned
\* GetPullRequests has made them all.
C30_StopsAtFirstFailure ==
    /\ Len(calls) <= Len(CallsInOrder)
    /\ CallsMade = SubSeq(CallsInOrder, 1, Len(calls))
    /\ \A k \in 1..Len(calls) : ~calls[k].ok => (k = Len(calls) /\ gpr.pc = "done")
    /\ (gpr.ret.returned /\ ~gpr.ret.err) => Len(calls) = Len(CallsInOrder)

\* The comment listing of the first of two pull requests fails: nothing is called after it
C30_Witness ==
    /\ gpr.ret.returned /\ gpr.ret.err
    /\ Len(gpr.allPRs) = 2
    /\ Len(calls) = 4
    /\ calls[3].call = "ListCommits" /\ calls[3].ok
    /\ calls[4] = RemoteCall("ListComments", gpr.allPRs[1].Number, FALSE)
    /\ Len(CallsInOrder) > Len(calls)

====
